---- MODULE Spec2Model ----
(***************************************************************************)
(* State-machine model of the thai-travel-share backend: the token         *)
(* service (core/security.py), the authentication gateway (core/deps.py),  *)
(* the user router and the travel-plan router, over the relational store   *)
(* (users, travel_plans, provinces).                                       *)
(*                                                                         *)
(* Python's Optional[T] is modelled as a sequence of length <= 1:          *)
(* None is <<>> and a present value v is <<v>>.  Time is in whole seconds  *)
(* (the resolution of the "exp" claim of a JWT).                           *)
(***************************************************************************)
EXTENDS Integers, Sequences, FiniteSets, TLC

VARIABLES
    users,      \* table "users": id -> DBUser row
    plans,      \* table "travel_plans": id -> DBTravelPlan row
    nextPlanId, \* number of travel-plan ids handed out so far (uuid4 never repeats)
    now,        \* the wall clock, utc_now(), in seconds
    issued,     \* tokens signed with SECRET_KEY so far
    inflight,   \* requests suspended at an await: slot -> request
    resp,       \* the response of the request that completed last
    held,       \* component level: the token the caller of the token service holds
    call        \* component level: the last direct call, its arguments and result

vars == <<users, plans, nextPlanId, now, issued, inflight, resp, held, call>>

(***************************************************************************)
(* Bounds of the model.                                                    *)
(***************************************************************************)
MaxTicks    == 1   \* clock advances explored
MaxLogins   == 2   \* successful logins explored (each issues two tokens)
MaxPlans    == 2   \* travel plans ever created
MaxInflight == 2   \* requests in flight at once
MaxUpdates  == 2   \* interleaved update requests that load their plan

(***************************************************************************)
(* Optional values.                                                        *)
(***************************************************************************)
None == <<>>
Some(v) == <<v>>
IsNone(o) == o = <<>>
Optional(S) == {None} \cup {Some(v) : v \in S}

\* seq[:n]
slice_to(seq, n) == SubSeq(seq, 1, IF Len(seq) < n THEN Len(seq) ELSE n)

(***************************************************************************)
(* Input domains.                                                          *)
(***************************************************************************)
Emails    == {"a@x", "b@x"}
Usernames == {"alice", "bob"}
Passwords == {"pw1", "pw2"}
TokenTypes == {"access", "refresh"}

(***************************************************************************)
(* core/security.py                                                        *)
(***************************************************************************)
ACCESS_TOKEN_EXPIRE_MINUTES == 300
REFRESH_TOKEN_EXPIRE_MINUTES == 10080

\* timedelta(minutes=m) in seconds
timedelta_minutes(m) == m * 60

\* passlib bcrypt: a digest of the password, never the plaintext itself.
get_password_hash(password) == [scheme |-> "bcrypt", digest_of |-> password]

verify_password(plain_password, hashed_password) ==
    hashed_password.scheme = "bcrypt" /\ hashed_password.digest_of = plain_password

\* jwt.encode(to_encode, SECRET_KEY, algorithm=ALGORITHM): the claims under a
\* signature made with the server's key.
jwt_encode(sub, exp, type) ==
    [sub |-> sub, type |-> type, exp |-> exp, sig |-> "valid"]

\* Truthiness of "if expires_delta:": None and timedelta(0) are both falsy.
Truthy(expires_delta) == expires_delta # None /\ expires_delta # Some(0)

\* Faulty variant: the delta is subtracted instead of added.
create_access_token_past(sub, expires_delta, t) ==
    jwt_encode(sub,
               IF Truthy(expires_delta) THEN t - expires_delta[1]
               ELSE t + timedelta_minutes(ACCESS_TOKEN_EXPIRE_MINUTES),
               "access")

\* data = {"sub": sub} (or {} when sub is None); t is utc_now().
create_access_token(sub, expires_delta, t) ==
    jwt_encode(sub,
               IF Truthy(expires_delta) THEN t + expires_delta[1]
               ELSE t + timedelta_minutes(ACCESS_TOKEN_EXPIRE_MINUTES),
               "access")

create_refresh_token(sub, expires_delta, t) ==
    jwt_encode(sub,
               IF Truthy(expires_delta) THEN t + expires_delta[1]
               ELSE t + timedelta_minutes(REFRESH_TOKEN_EXPIRE_MINUTES),
               "refresh")

\* Faulty variant: decoding with verify_exp switched off.
jwt_decode_ignores_exp(token, t) == token.sig # "valid"

\* jwt.decode(token, SECRET_KEY, algorithms=[ALGORITHM]): raises JWTError for a
\* malformed envelope, a signature that does not verify, or exp < now.
jwt_decode_raises(token, t) ==
    \/ token.sig # "valid"
    \/ token.exp < t

\* Faulty variant: the "type" claim is not compared.
verify_token_any_type(token, token_type, t) ==
    IF jwt_decode_raises(token, t) THEN None
    ELSE IF IsNone(token.sub) THEN None
    ELSE token.sub

verify_token(token, token_type, t) ==
    IF jwt_decode_raises(token, t) THEN None
    ELSE IF IsNone(token.sub) \/ token.type # token_type THEN None
    ELSE token.sub

(***************************************************************************)
(* Responses.  Every response has the same shape; the fields an operation  *)
(* does not produce stay None.  principal and path_id echo the request:    *)
(* the id of the caller the gateway resolved and the id in the path.       *)
(***************************************************************************)
HTTPException(status_code, detail, headers) ==
    [status_code |-> status_code, detail |-> detail, headers |-> headers]

Response(op, status, detail) ==
    [op |-> op, status |-> status, detail |-> detail, headers |-> None,
     principal |-> None, path_id |-> None,
     user |-> None, access_token |-> None, refresh_token |-> None,
     plan |-> None]

\* FastAPI turns a raised HTTPException into the response.
Raise(op, exc) ==
    [Response(op, exc.status_code, exc.detail) EXCEPT !.headers = exc.headers]

(***************************************************************************)
(* models/user_model.py                                                    *)
(***************************************************************************)
\* Faulty variant: is_active defaulting to False.
DBUser_inactive_default(id, user_info, hashed_password, t) ==
    [id |-> id,
     email |-> user_info.email,
     username |-> user_info.username,
     hashed_password |-> hashed_password,
     first_name |-> user_info.first_name,
     last_name |-> user_info.last_name,
     phone |-> user_info.phone,
     date_of_birth |-> user_info.date_of_birth,
     national_id |-> user_info.national_id,
     is_active |-> FALSE,
     created_at |-> t,
     updated_at |-> None]

\* DBUser(**fields): id from uuid4 (a fresh id), is_active defaults to True,
\* created_at defaults to utc_now(), updated_at to None.
DBUser(id, user_info, hashed_password, t) ==
    [id |-> id,
     email |-> user_info.email,
     username |-> user_info.username,
     hashed_password |-> hashed_password,
     first_name |-> user_info.first_name,
     last_name |-> user_info.last_name,
     phone |-> user_info.phone,
     date_of_birth |-> user_info.date_of_birth,
     national_id |-> user_info.national_id,
     is_active |-> TRUE,
     created_at |-> t,
     updated_at |-> None]

\* Faulty variant: the row itself is handed out as the public model.
User_whole_row(user) == user

\* The public User model built from a row, field by field.
User(user) ==
    [id |-> user.id,
     email |-> user.email,
     username |-> user.username,
     first_name |-> user.first_name,
     last_name |-> user.last_name,
     phone |-> user.phone,
     date_of_birth |-> user.date_of_birth,
     is_active |-> user.is_active,
     created_at |-> user.created_at]

\* select(DBUser).where(DBUser.email == email) / (DBUser.username == username)
select_by_email(us, email) == {i \in DOMAIN us : us[i].email = email}
select_by_username(us, username) == {i \in DOMAIN us : us[i].username = username}

\* result.first(): a row of the result, None when it is empty.
first(us, ids) == IF ids = {} THEN None ELSE Some(us[CHOOSE i \in ids : TRUE])

\* uuid4(): an id no row has had; rows of "users" are never deleted.
fresh_user_id(us) == Cardinality(DOMAIN us) + 1

(***************************************************************************)
(* core/deps.py                                                            *)
(***************************************************************************)
\* security = HTTPBearer(): a request without a bearer credential is answered
\* before the dependant runs.
security_rejects(credentials) == IsNone(credentials)

\* Faulty variant: the bearer scheme answering like an invalid token.
not_authenticated_401 ==
    HTTPException(401, "Could not validate credentials", Some("WWW-Authenticate: Bearer"))

not_authenticated == HTTPException(403, "Not authenticated", None)

credentials_exception ==
    HTTPException(401, "Could not validate credentials", Some("WWW-Authenticate: Bearer"))

inactive_user == HTTPException(400, "Inactive user", None)

Authenticated(user) == [ok |-> TRUE, exc |-> HTTPException(200, "", None), user |-> Some(user)]
Rejected(exc) == [ok |-> FALSE, exc |-> exc, user |-> None]

\* Faulty variant: a deactivated principal is answered like an unknown one.
get_current_user_inactive_401(credentials, us, t) ==
    IF security_rejects(credentials) THEN Rejected(not_authenticated)
    ELSE LET username == verify_token(credentials[1], "access", t) IN
         IF IsNone(username) THEN Rejected(credentials_exception)
         ELSE LET user == first(us, select_by_username(us, username[1])) IN
              IF IsNone(user) \/ ~user[1].is_active THEN Rejected(credentials_exception)
              ELSE Authenticated(User(user[1]))

\* Faulty variant: a token issued no later than the last change of the row is
\* refused.
get_current_user_revoked_by_change(credentials, us, t) ==
    IF security_rejects(credentials) THEN Rejected(not_authenticated)
    ELSE LET username == verify_token(credentials[1], "access", t) IN
         IF IsNone(username) THEN Rejected(credentials_exception)
         ELSE LET user == first(us, select_by_username(us, username[1])) IN
              IF IsNone(user) THEN Rejected(credentials_exception)
              ELSE IF /\ ~IsNone(user[1].updated_at)
                      /\ credentials[1].exp - timedelta_minutes(ACCESS_TOKEN_EXPIRE_MINUTES)
                            <= user[1].updated_at[1]
              THEN Rejected(credentials_exception)
              ELSE IF ~user[1].is_active THEN Rejected(inactive_user)
              ELSE Authenticated(User(user[1]))

get_current_user(credentials, us, t) ==
    IF security_rejects(credentials) THEN Rejected(not_authenticated)
    ELSE LET username == verify_token(credentials[1], "access", t) IN
         IF IsNone(username) THEN Rejected(credentials_exception)
         ELSE LET user == first(us, select_by_username(us, username[1])) IN
              IF IsNone(user) THEN Rejected(credentials_exception)
              ELSE IF ~user[1].is_active THEN Rejected(inactive_user)
              ELSE Authenticated(User(user[1]))

(***************************************************************************)
(* core/database.py: the unit of work.  flush/commit enforces the schema:  *)
(* unique email, unique username, NOT NULL columns.  A violation raises    *)
(* IntegrityError; get_session rolls back and the request ends in a 500.   *)
(***************************************************************************)
internal_server_error == HTTPException(500, "Internal Server Error", None)

\* Faulty variant: a schema without the two unique indexes.
users_integrity_not_unique(us) ==
    \A i \in DOMAIN us : ~IsNone(us[i].first_name) /\ ~IsNone(us[i].last_name)

users_integrity_ok(us) ==
    /\ \A i, j \in DOMAIN us : i # j => /\ us[i].email # us[j].email
                                        /\ us[i].username # us[j].username
    /\ \A i \in DOMAIN us : ~IsNone(us[i].first_name) /\ ~IsNone(us[i].last_name)

\* session.add(row); await session.commit() on table "users"
commit_users(us, row) ==
    LET after == [i \in DOMAIN us \cup {row.id} |-> IF i = row.id THEN row ELSE us[i]] IN
    IF users_integrity_ok(after) THEN [ok |-> TRUE, users |-> after]
    ELSE [ok |-> FALSE, users |-> us]

\* await session.get(DBUser, user_id)
session_get_user(us, user_id) == IF user_id \in DOMAIN us THEN Some(us[user_id]) ELSE None

(***************************************************************************)
(* core/config.py: get_settings()                                          *)
(***************************************************************************)
settings_ACCESS_TOKEN_EXPIRE_MINUTES == 300
settings_REFRESH_TOKEN_EXPIRE_MINUTES == 10080

(***************************************************************************)
(* routers/v1/user_router.py                                               *)
(***************************************************************************)
Result(r, us) == [resp |-> r, users |-> us]

email_registered(us, email) == ~IsNone(first(us, select_by_email(us, email)))
username_taken(us, username) == ~IsNone(first(us, select_by_username(us, username)))

email_already_registered == HTTPException(400, "Email already registered", None)
username_already_taken == HTTPException(400, "Username already taken", None)

\* "Create new user" .. return: the part of register after both checks.
register_create(us, user_info, t) ==
    LET db_user == DBUser(fresh_user_id(us), user_info,
                          get_password_hash(user_info.password), t)
        c == commit_users(us, db_user)
    IN IF ~c.ok THEN Result(Raise("register", internal_server_error), us)
       ELSE Result([Response("register", 200, "User registered successfully")
                       EXCEPT !.user = Some(User(db_user))],
                   c.users)

\* Faulty variant: the username is checked before the email.
register_username_first(us, user_info, t) ==
    IF username_taken(us, user_info.username)
    THEN Result(Raise("register", username_already_taken), us)
    ELSE IF email_registered(us, user_info.email)
    THEN Result(Raise("register", email_already_registered), us)
    ELSE register_create(us, user_info, t)

register(us, user_info, t) ==
    IF email_registered(us, user_info.email)
    THEN Result(Raise("register", email_already_registered), us)
    ELSE IF username_taken(us, user_info.username)
    THEN Result(Raise("register", username_already_taken), us)
    ELSE register_create(us, user_info, t)

incorrect_username_or_password ==
    HTTPException(401, "Incorrect username or password", Some("WWW-Authenticate: Bearer"))

\* Faulty variant: the tokens are bound to the email.
login_sub_email(us, user_login, t) ==
    LET user == first(us, select_by_username(us, user_login.username)) IN
    IF IsNone(user) \/ ~verify_password(user_login.password, user[1].hashed_password)
    THEN Raise("login", incorrect_username_or_password)
    ELSE IF ~user[1].is_active
    THEN Raise("login", inactive_user)
    ELSE [Response("login", 200, "bearer") EXCEPT
            !.access_token = Some(create_access_token(
                Some(user[1].email),
                Some(timedelta_minutes(settings_ACCESS_TOKEN_EXPIRE_MINUTES)), t)),
            !.refresh_token = Some(create_refresh_token(
                Some(user[1].email),
                Some(timedelta_minutes(settings_REFRESH_TOKEN_EXPIRE_MINUTES)), t)),
            !.user = Some(User(user[1]))]

\* Faulty variant: the active flag is checked before the password.
login_active_first(us, user_login, t) ==
    LET user == first(us, select_by_username(us, user_login.username)) IN
    IF IsNone(user)
    THEN Raise("login", incorrect_username_or_password)
    ELSE IF ~user[1].is_active
    THEN Raise("login", inactive_user)
    ELSE IF ~verify_password(user_login.password, user[1].hashed_password)
    THEN Raise("login", incorrect_username_or_password)
    ELSE [Response("login", 200, "bearer") EXCEPT
            !.access_token = Some(create_access_token(
                Some(user[1].username),
                Some(timedelta_minutes(settings_ACCESS_TOKEN_EXPIRE_MINUTES)), t)),
            !.refresh_token = Some(create_refresh_token(
                Some(user[1].username),
                Some(timedelta_minutes(settings_REFRESH_TOKEN_EXPIRE_MINUTES)), t)),
            !.user = Some(User(user[1]))]

login(us, user_login, t) ==
    LET user == first(us, select_by_username(us, user_login.username)) IN
    IF IsNone(user) \/ ~verify_password(user_login.password, user[1].hashed_password)
    THEN Raise("login", incorrect_username_or_password)
    ELSE IF ~user[1].is_active
    THEN Raise("login", inactive_user)
    ELSE [Response("login", 200, "bearer") EXCEPT
            !.access_token = Some(create_access_token(
                Some(user[1].username),
                Some(timedelta_minutes(settings_ACCESS_TOKEN_EXPIRE_MINUTES)), t)),
            !.refresh_token = Some(create_refresh_token(
                Some(user[1].username),
                Some(timedelta_minutes(settings_REFRESH_TOKEN_EXPIRE_MINUTES)), t)),
            !.user = Some(User(user[1]))]

user_not_found == HTTPException(404, "User not found", None)
not_enough_permissions == HTTPException(403, "Not enough permissions", None)
incorrect_old_password == HTTPException(400, "Incorrect old password", None)

get_user(us, user_id) ==
    LET user == session_get_user(us, user_id) IN
    IF IsNone(user) THEN Raise("get_user", user_not_found)
    ELSE [Response("get_user", 200, "") EXCEPT !.user = Some(User(user[1]))]

\* Faulty variant: the target is looked up before the caller is compared.
change_password_lookup_first(us, current_user, user_id, password_update, t) ==
    LET user == session_get_user(us, user_id) IN
    IF IsNone(user)
    THEN Result(Raise("change_password", user_not_found), us)
    ELSE IF current_user.id # user_id
    THEN Result(Raise("change_password", not_enough_permissions), us)
    ELSE IF ~verify_password(password_update.old_password, user[1].hashed_password)
    THEN Result(Raise("change_password", incorrect_old_password), us)
    ELSE LET c == commit_users(us,
                    [user[1] EXCEPT
                        !.hashed_password = get_password_hash(password_update.new_password),
                        !.updated_at = Some(t)])
         IN IF ~c.ok THEN Result(Raise("change_password", internal_server_error), us)
            ELSE Result(Response("change_password", 200, "Password updated successfully"),
                        c.users)

\* Faulty variant: the new password is stored as it was sent.
change_password_stores_plaintext(us, current_user, user_id, password_update, t) ==
    IF current_user.id # user_id
    THEN Result(Raise("change_password", not_enough_permissions), us)
    ELSE LET user == session_get_user(us, user_id) IN
    IF IsNone(user)
    THEN Result(Raise("change_password", user_not_found), us)
    ELSE IF ~verify_password(password_update.old_password, user[1].hashed_password)
    THEN Result(Raise("change_password", incorrect_old_password), us)
    ELSE LET c == commit_users(us,
                    [user[1] EXCEPT
                        !.hashed_password = [scheme |-> "plaintext",
                                             digest_of |-> password_update.new_password],
                        !.updated_at = Some(t)])
         IN IF ~c.ok THEN Result(Raise("change_password", internal_server_error), us)
            ELSE Result(Response("change_password", 200, "Password updated successfully"),
                        c.users)

change_password(us, current_user, user_id, password_update, t) ==
    IF current_user.id # user_id
    THEN Result(Raise("change_password", not_enough_permissions), us)
    ELSE LET user == session_get_user(us, user_id) IN
    IF IsNone(user)
    THEN Result(Raise("change_password", user_not_found), us)
    ELSE IF ~verify_password(password_update.old_password, user[1].hashed_password)
    THEN Result(Raise("change_password", incorrect_old_password), us)
    ELSE LET c == commit_users(us,
                    [user[1] EXCEPT
                        !.hashed_password = get_password_hash(password_update.new_password),
                        !.updated_at = Some(t)])
         IN IF ~c.ok THEN Result(Raise("change_password", internal_server_error), us)
            ELSE Result(Response("change_password", 200, "Password updated successfully"),
                        c.users)

\* model_dump(exclude_unset=True) is the set of supplied fields with their
\* values; setattr(user, field, value) for each of them.
setattr_all(row, update_data, field) ==
    IF field \in DOMAIN update_data THEN update_data[field] ELSE row[field]

\* Faulty variant: the caller is not compared with the path user_id.
update_user_any_caller(us, current_user, user_id, user_update, t) ==
    LET user == session_get_user(us, user_id) IN
    IF IsNone(user)
    THEN Result(Raise("update_user", user_not_found), us)
    ELSE LET updated == [user[1] EXCEPT
                            !.first_name = setattr_all(user[1], user_update, "first_name"),
                            !.last_name = setattr_all(user[1], user_update, "last_name"),
                            !.phone = setattr_all(user[1], user_update, "phone"),
                            !.date_of_birth = setattr_all(user[1], user_update, "date_of_birth"),
                            !.updated_at = Some(t)]
             c == commit_users(us, updated)
         IN IF ~c.ok THEN Result(Raise("update_user", internal_server_error), us)
            ELSE Result([Response("update_user", 200, "") EXCEPT !.user = Some(User(updated))],
                        c.users)

\* Faulty variant: the assignments of a request whose commit fails are kept.
update_user_keeps_failed_write(us, current_user, user_id, user_update, t) ==
    IF current_user.id # user_id
    THEN Result(Raise("update_user", not_enough_permissions), us)
    ELSE LET user == session_get_user(us, user_id) IN
    IF IsNone(user)
    THEN Result(Raise("update_user", user_not_found), us)
    ELSE LET updated == [user[1] EXCEPT
                            !.first_name = setattr_all(user[1], user_update, "first_name"),
                            !.last_name = setattr_all(user[1], user_update, "last_name"),
                            !.phone = setattr_all(user[1], user_update, "phone"),
                            !.date_of_birth = setattr_all(user[1], user_update, "date_of_birth"),
                            !.updated_at = Some(t)]
             c == commit_users(us, updated)
         IN IF ~c.ok THEN Result(Raise("update_user", internal_server_error),
                                 [us EXCEPT ![user_id] = updated])
            ELSE Result([Response("update_user", 200, "") EXCEPT !.user = Some(User(updated))],
                        c.users)

update_user(us, current_user, user_id, user_update, t) ==
    IF current_user.id # user_id
    THEN Result(Raise("update_user", not_enough_permissions), us)
    ELSE LET user == session_get_user(us, user_id) IN
    IF IsNone(user)
    THEN Result(Raise("update_user", user_not_found), us)
    ELSE LET updated == [user[1] EXCEPT
                            !.first_name = setattr_all(user[1], user_update, "first_name"),
                            !.last_name = setattr_all(user[1], user_update, "last_name"),
                            !.phone = setattr_all(user[1], user_update, "phone"),
                            !.date_of_birth = setattr_all(user[1], user_update, "date_of_birth"),
                            !.updated_at = Some(t)]
             c == commit_users(us, updated)
         IN IF ~c.ok THEN Result(Raise("update_user", internal_server_error), us)
            ELSE Result([Response("update_user", 200, "") EXCEPT !.user = Some(User(updated))],
                        c.users)

(***************************************************************************)
(* models/travel_model.py and the seeded catalog (core/database.py).       *)
(* A Decimal amount is modelled by its number of hundredths (15000.00 is   *)
(* 1500000); a rate is its percentage (15.00 is 15).                       *)
(***************************************************************************)
\* init_provinces_data: id -> tax_reduction_percentage, is_secondary_province
provinces ==
    [i \in 1..10 |->
        [id |-> i,
         tax_reduction_percentage |-> <<15, 12, 10, 8, 10, 5, 0, 3, 6, 8>>[i],
         is_secondary_province |-> i \in {1, 2, 3, 4, 5, 10}]]

\* await session.get(DBProvince, province_id)
session_get_province(province_id) ==
    IF province_id \in DOMAIN provinces THEN Some(provinces[province_id]) ELSE None

\* Truthiness of an Optional[Decimal]: None and Decimal(0) are falsy.
TruthyDecimal(d) == d # None /\ d # Some(0)

\* tax_rate = province.tax_reduction_percentage / 100; budget * tax_rate
tax_reduction(budget, province) ==
    (budget * province.tax_reduction_percentage) \div 100

\* DBTravelPlan(...): id from uuid4, status defaults to "planned",
\* created_at to utc_now(), updated_at to None.
DBTravelPlan(id, user_id, travel_plan, estimated_tax_reduction, t) ==
    [id |-> id,
     user_id |-> user_id,
     province_id |-> travel_plan.province_id,
     start_date |-> Some(travel_plan.start_date),
     end_date |-> Some(travel_plan.end_date),
     budget |-> travel_plan.budget,
     estimated_tax_reduction |-> estimated_tax_reduction,
     status |-> Some("planned"),
     notes |-> travel_plan.notes,
     created_at |-> t,
     updated_at |-> None]

Province(province) == province

TravelPlan(travel_plan, province) ==
    [id |-> travel_plan.id,
     user_id |-> travel_plan.user_id,
     province_id |-> travel_plan.province_id,
     province |-> Province(province),
     start_date |-> travel_plan.start_date,
     end_date |-> travel_plan.end_date,
     budget |-> travel_plan.budget,
     estimated_tax_reduction |-> travel_plan.estimated_tax_reduction,
     status |-> travel_plan.status,
     notes |-> travel_plan.notes,
     created_at |-> travel_plan.created_at]

TravelPlanWithTaxInfo(travel_plan, province, actual_tax_savings) ==
    [id |-> travel_plan.id,
     user_id |-> travel_plan.user_id,
     province |-> Province(province),
     start_date |-> travel_plan.start_date,
     end_date |-> travel_plan.end_date,
     budget |-> travel_plan.budget,
     estimated_tax_reduction |-> travel_plan.estimated_tax_reduction,
     actual_tax_savings |-> actual_tax_savings,
     status |-> travel_plan.status,
     notes |-> travel_plan.notes,
     created_at |-> travel_plan.created_at]

\* NOT NULL columns of "travel_plans" that an update can assign
plan_integrity_ok(row) ==
    ~IsNone(row.start_date) /\ ~IsNone(row.end_date) /\ ~IsNone(row.status)

\* session.add(row); await session.commit() on table "travel_plans"
commit_plans(ps, row) ==
    IF plan_integrity_ok(row)
    THEN [ok |-> TRUE,
          plans |-> [i \in DOMAIN ps \cup {row.id} |-> IF i = row.id THEN row ELSE ps[i]]]
    ELSE [ok |-> FALSE, plans |-> ps]

\* await session.get(DBTravelPlan, plan_id)
session_get_plan(ps, plan_id) == IF plan_id \in DOMAIN ps THEN Some(ps[plan_id]) ELSE None

(***************************************************************************)
(* routers/v1/travel_router.py                                             *)
(***************************************************************************)
PlanResult(r, ps) == [resp |-> r, plans |-> ps]

province_not_found == HTTPException(404, "Province not found", None)
travel_plan_not_found == HTTPException(404, "Travel plan not found", None)

\* Faulty variant: the region is looked up after the plan has been committed.
create_travel_plan_checks_late(ps, current_user, travel_plan, id, t) ==
    LET province == session_get_province(travel_plan.province_id) IN
    IF IsNone(province)
    THEN PlanResult(Raise("create_travel_plan", province_not_found),
                    commit_plans(ps, DBTravelPlan(id, current_user.id, travel_plan, None, t)).plans)
    ELSE LET estimated_tax_reduction ==
                 IF TruthyDecimal(travel_plan.budget)
                 THEN Some(tax_reduction(travel_plan.budget[1], province[1]))
                 ELSE None
             db_travel_plan == DBTravelPlan(id, current_user.id, travel_plan,
                                            estimated_tax_reduction, t)
             c == commit_plans(ps, db_travel_plan)
         IN IF ~c.ok
            THEN PlanResult(Raise("create_travel_plan", internal_server_error), ps)
            ELSE PlanResult([Response("create_travel_plan", 200,
                                      "Travel plan created successfully")
                                EXCEPT !.plan = Some(TravelPlan(db_travel_plan, province[1]))],
                            c.plans)

create_travel_plan(ps, current_user, travel_plan, id, t) ==
    LET province == session_get_province(travel_plan.province_id) IN
    IF IsNone(province)
    THEN PlanResult(Raise("create_travel_plan", province_not_found), ps)
    ELSE LET estimated_tax_reduction ==
                 IF TruthyDecimal(travel_plan.budget)
                 THEN Some(tax_reduction(travel_plan.budget[1], province[1]))
                 ELSE None
             db_travel_plan == DBTravelPlan(id, current_user.id, travel_plan,
                                            estimated_tax_reduction, t)
             c == commit_plans(ps, db_travel_plan)
         IN IF ~c.ok
            THEN PlanResult(Raise("create_travel_plan", internal_server_error), ps)
            ELSE PlanResult([Response("create_travel_plan", 200,
                                      "Travel plan created successfully")
                                EXCEPT !.plan = Some(TravelPlan(db_travel_plan, province[1]))],
                            c.plans)

\* select(DBTravelPlan, DBProvince).join(DBProvince).where(id == plan_id,
\* user_id == current_user.id); result.first()
select_owned_plan(ps, plan_id, user_id) ==
    LET ids == {i \in DOMAIN ps : /\ i = plan_id
                                  /\ ps[i].user_id = user_id
                                  /\ ps[i].province_id \in DOMAIN provinces}
    IN IF ids = {} THEN None ELSE Some(ps[CHOOSE i \in ids : TRUE])

get_travel_plan(ps, current_user, plan_id) ==
    LET found == select_owned_plan(ps, plan_id, current_user.id) IN
    IF IsNone(found) THEN Raise("get_travel_plan", travel_plan_not_found)
    ELSE [Response("get_travel_plan", 200, "") EXCEPT
            !.plan = Some(TravelPlan(found[1], provinces[found[1].province_id]))]

\* Faulty variant: the owner of the plan is not compared with the caller.
update_travel_plan_any_owner(ps, current_user, plan_id, travel_plan_update, t) ==
    LET travel_plan == session_get_plan(ps, plan_id) IN
    IF IsNone(travel_plan)
    THEN PlanResult(Raise("update_travel_plan", travel_plan_not_found), ps)
    ELSE LET assigned == [travel_plan[1] EXCEPT
                 !.start_date = setattr_all(travel_plan[1], travel_plan_update, "start_date"),
                 !.end_date = setattr_all(travel_plan[1], travel_plan_update, "end_date"),
                 !.budget = setattr_all(travel_plan[1], travel_plan_update, "budget"),
                 !.status = setattr_all(travel_plan[1], travel_plan_update, "status"),
                 !.notes = setattr_all(travel_plan[1], travel_plan_update, "notes")]
             province == session_get_province(assigned.province_id)
             recalculated ==
                 IF /\ "budget" \in DOMAIN travel_plan_update
                    /\ TruthyDecimal(assigned.budget)
                    /\ ~IsNone(province)
                 THEN [assigned EXCEPT !.estimated_tax_reduction =
                          Some(tax_reduction(assigned.budget[1], province[1]))]
                 ELSE assigned
             stamped == [recalculated EXCEPT !.updated_at = Some(t)]
             c == commit_plans(ps, stamped)
         IN IF ~c.ok
            THEN PlanResult(Raise("update_travel_plan", internal_server_error), ps)
            ELSE PlanResult([Response("update_travel_plan", 200, "") EXCEPT
                                !.plan = Some(TravelPlan(stamped, provinces[stamped.province_id]))],
                            c.plans)

\* Faulty variant: the estimate is recalculated also when no budget is supplied.
update_travel_plan_always_recalculates(ps, current_user, plan_id, travel_plan_update, t) ==
    LET travel_plan == session_get_plan(ps, plan_id) IN
    IF IsNone(travel_plan) \/ travel_plan[1].user_id # current_user.id
    THEN PlanResult(Raise("update_travel_plan", travel_plan_not_found), ps)
    ELSE LET assigned == [travel_plan[1] EXCEPT
                 !.start_date = setattr_all(travel_plan[1], travel_plan_update, "start_date"),
                 !.end_date = setattr_all(travel_plan[1], travel_plan_update, "end_date"),
                 !.budget = setattr_all(travel_plan[1], travel_plan_update, "budget"),
                 !.status = setattr_all(travel_plan[1], travel_plan_update, "status"),
                 !.notes = setattr_all(travel_plan[1], travel_plan_update, "notes")]
             province == session_get_province(assigned.province_id)
             recalculated ==
                 IF ~IsNone(assigned.budget) /\ ~IsNone(province)
                 THEN [assigned EXCEPT !.estimated_tax_reduction =
                          Some(tax_reduction(assigned.budget[1], province[1]))]
                 ELSE assigned
             stamped == [recalculated EXCEPT !.updated_at = Some(t)]
             c == commit_plans(ps, stamped)
         IN IF ~c.ok
            THEN PlanResult(Raise("update_travel_plan", internal_server_error), ps)
            ELSE PlanResult([Response("update_travel_plan", 200, "") EXCEPT
                                !.plan = Some(TravelPlan(stamped, provinces[stamped.province_id]))],
                            c.plans)

update_travel_plan(ps, current_user, plan_id, travel_plan_update, t) ==
    LET travel_plan == session_get_plan(ps, plan_id) IN
    IF IsNone(travel_plan) \/ travel_plan[1].user_id # current_user.id
    THEN PlanResult(Raise("update_travel_plan", travel_plan_not_found), ps)
    ELSE LET assigned == [travel_plan[1] EXCEPT
                 !.start_date = setattr_all(travel_plan[1], travel_plan_update, "start_date"),
                 !.end_date = setattr_all(travel_plan[1], travel_plan_update, "end_date"),
                 !.budget = setattr_all(travel_plan[1], travel_plan_update, "budget"),
                 !.status = setattr_all(travel_plan[1], travel_plan_update, "status"),
                 !.notes = setattr_all(travel_plan[1], travel_plan_update, "notes")]
             province == session_get_province(assigned.province_id)
             recalculated ==
                 IF /\ "budget" \in DOMAIN travel_plan_update
                    /\ TruthyDecimal(assigned.budget)
                    /\ ~IsNone(province)
                 THEN [assigned EXCEPT !.estimated_tax_reduction =
                          Some(tax_reduction(assigned.budget[1], province[1]))]
                 ELSE assigned
             stamped == [recalculated EXCEPT !.updated_at = Some(t)]
             c == commit_plans(ps, stamped)
         IN IF ~c.ok
            THEN PlanResult(Raise("update_travel_plan", internal_server_error), ps)
            ELSE PlanResult([Response("update_travel_plan", 200, "") EXCEPT
                                !.plan = Some(TravelPlan(stamped, provinces[stamped.province_id]))],
                            c.plans)

\* Faulty variant: a soft delete, the row is kept and marked.
delete_travel_plan_soft(ps, current_user, plan_id) ==
    LET travel_plan == session_get_plan(ps, plan_id) IN
    IF IsNone(travel_plan) \/ travel_plan[1].user_id # current_user.id
    THEN PlanResult(Raise("delete_travel_plan", travel_plan_not_found), ps)
    ELSE PlanResult(Response("delete_travel_plan", 200, "Travel plan deleted successfully"),
                    [ps EXCEPT ![plan_id].status = Some("deleted")])

delete_travel_plan(ps, current_user, plan_id) ==
    LET travel_plan == session_get_plan(ps, plan_id) IN
    IF IsNone(travel_plan) \/ travel_plan[1].user_id # current_user.id
    THEN PlanResult(Raise("delete_travel_plan", travel_plan_not_found), ps)
    ELSE PlanResult(Response("delete_travel_plan", 200, "Travel plan deleted successfully"),
                    [i \in DOMAIN ps \ {plan_id} |-> ps[i]])

get_travel_plan_tax_info(ps, current_user, plan_id) ==
    LET found == select_owned_plan(ps, plan_id, current_user.id) IN
    IF IsNone(found) THEN Raise("get_travel_plan_tax_info", travel_plan_not_found)
    ELSE LET travel_plan == found[1]
             province == provinces[travel_plan.province_id]
             actual_tax_savings ==
                 IF TruthyDecimal(travel_plan.budget) /\ travel_plan.status = Some("completed")
                 THEN Some(tax_reduction(travel_plan.budget[1], province))
                 ELSE None
         IN [Response("get_travel_plan_tax_info", 200, "") EXCEPT
                !.plan = Some(TravelPlanWithTaxInfo(travel_plan, province, actual_tax_savings))]

\* select(DBTravelPlan, DBProvince).join(DBProvince).where(user_id ==
\* current_user.id)[.where(status == status_filter)].order_by(created_at
\* desc); result.all().  Rows with equal created_at come in any order: the
\* result is one of the sequences below.
select_user_plans(ps, user_id, status_filter) ==
    LET ids == {i \in DOMAIN ps :
                   /\ ps[i].user_id = user_id
                   /\ ps[i].province_id \in DOMAIN provinces
                   /\ (~IsNone(status_filter) /\ status_filter[1] # "") =>
                          ps[i].status = status_filter}
        n == Cardinality(ids)
    IN {[k \in 1..n |-> ps[order[k]]] :
           order \in {o \in [1..n -> ids] :
                         /\ \A j, k \in 1..n : j # k => o[j] # o[k]
                         /\ \A j, k \in 1..n :
                               j < k => ps[o[j]].created_at >= ps[o[k]].created_at}}

\* A Decimal that need not be a whole number of hundredths: the nearest
\* number of hundredths and what the value exceeds it by, in units of 10^-16.
DecimalOf(cents, e16) == [cents |-> cents, e16 |-> e16]

\* total + float(amount): one addition of sum(float(tp.estimated_tax_reduction
\* or 0) for tp in travel_plans), in IEEE-754 binary64, for the amounts of the
\* model.  The doubles nearest to 1.20 and 2.40 add up to 3.5999999999999996,
\* which is 4 * 10^-16 below 3.60; every other addition of the model yields
\* the double nearest to the exact sum, and adding 0.0 changes nothing.
float_add(total, amount) ==
    IF \/ total = DecimalOf(120, 0) /\ amount = 240
       \/ total = DecimalOf(240, 0) /\ amount = 120
    THEN DecimalOf(360, -4)
    ELSE DecimalOf(total.cents + amount, total.e16)

\* Decimal(str(total_savings)): str() gives the shortest decimal that reads
\* back as the double, so the Decimal is the double's value as printed.
RECURSIVE sum_float(_)
sum_float(amounts) ==
    IF amounts = <<>> THEN DecimalOf(0, 0)
    ELSE float_add(sum_float(SubSeq(amounts, 1, Len(amounts) - 1)), amounts[Len(amounts)])

\* plans_by_status[status] = plans_by_status.get(status, 0) + 1 for each plan
count_by_status(travel_plans) ==
    [st \in {travel_plans[k].status[1] : k \in DOMAIN travel_plans} |->
        Cardinality({k \in DOMAIN travel_plans : travel_plans[k].status[1] = st})]

\* [tp for tp in travel_plans if cond(tp)], in the order of travel_plans
RECURSIVE select_upcoming(_, _)
select_upcoming(travel_plans, t) ==
    IF travel_plans = <<>> THEN <<>>
    ELSE LET tp == travel_plans[Len(travel_plans)]
             before == select_upcoming(SubSeq(travel_plans, 1, Len(travel_plans) - 1), t)
         IN IF tp.start_date[1] > t /\ tp.status[1] \in {"planned", "confirmed"}
            THEN Append(before, tp) ELSE before

\* The handler after the query, on its rows, at time t: the list of views,
\* its length, the total of the estimates (a missing estimate counts as 0),
\* the count of each status and the first five upcoming trips.
get_user_travel_plans(rows, t) ==
    LET travel_plans == [k \in 1..Len(rows) |->
                            TravelPlan(rows[k], provinces[rows[k].province_id])]
        amounts == [k \in 1..Len(rows) |->
                       IF IsNone(travel_plans[k].estimated_tax_reduction) THEN 0
                       ELSE travel_plans[k].estimated_tax_reduction[1]]
    IN [Response("get_user_travel_plans", 200, "") EXCEPT
           !.plan = Some([travel_plans |-> travel_plans,
                          total_count |-> Len(travel_plans),
                          total_estimated_savings |-> sum_float(amounts),
                          plans_by_status |-> count_by_status(travel_plans),
                          upcoming_trips |-> slice_to(select_upcoming(travel_plans, t), 5)])]

(***************************************************************************)
(* Requests: the inputs the clients send.                                  *)
(***************************************************************************)
RegisteredUser(e, u, p) ==
    [email |-> e, username |-> u, password |-> p,
     first_name |-> Some("First"), last_name |-> Some("Last"),
     phone |-> None, date_of_birth |-> None, national_id |-> Some("1103700000001")]

RegisteredUsers == {RegisteredUser(e, u, "pw1") : e \in Emails, u \in Usernames}

UserLogins == [username : Usernames, password : Passwords]

ChangedPasswords == [old_password : Passwords, new_password : Passwords]

UpdatedUsers ==
    {<<>>,
     [first_name |-> Some("Updated"), phone |-> Some("0987654321")],
     [last_name |-> None]}

PathUserIds == 1 .. (Cardinality(Usernames) + 1)

\* A token signed with a key that is not SECRET_KEY, and a string that is no JWT.
ForgedTokens ==
    {[sub |-> Some("alice"), type |-> "access", exp |-> 1000000000, sig |-> "forged"]}
MalformedToken == [sub |-> None, type |-> "access", exp |-> 0, sig |-> "malformed"]

\* What a request can carry in its Authorization header.
Credentials ==
    {None} \cup {Some(tok) : tok \in issued \cup ForgedTokens \cup {MalformedToken}}

(***************************************************************************)
(* Init: empty tables after init_db(), seeded catalog, no request yet.     *)
(***************************************************************************)
Idle == [pc |-> "idle"]
NoCall == [fn |-> "none"]
NoResponse == Response("none", 0, "")

\* Requests are taken one at a time: the next one is accepted when the
\* response of the previous one has been delivered.
Accepting == resp = NoResponse

Deliver ==
    /\ ~Accepting
    /\ resp' = NoResponse
    /\ UNCHANGED <<users, plans, nextPlanId, now, issued, inflight, held, call>>

Init ==
    /\ users = <<>>
    /\ plans = <<>>
    /\ nextPlanId = 0
    /\ now = 0
    /\ issued = {}
    /\ inflight = [s \in 1..MaxInflight |-> Idle]
    /\ resp = NoResponse
    /\ held = None
    /\ call = NoCall

(***************************************************************************)
(* The clock.                                                              *)
(***************************************************************************)
\* Just over an access-token lifetime.
LongDelta == timedelta_minutes(settings_ACCESS_TOKEN_EXPIRE_MINUTES) + 1

\* Clock advances so far: long ones and one-second ones.
TicksOf(t) == (t \div LongDelta) + (t % LongDelta)

Tick(d) ==
    /\ Accepting
    /\ TicksOf(now) < MaxTicks
    /\ now' = now + d
    /\ UNCHANGED <<users, plans, nextPlanId, issued, inflight, resp, held, call>>

(***************************************************************************)
(* User operations, each request handled from start to end.                *)
(***************************************************************************)
\* The response with the request echoed in it.
Echo(r, auth, path_id) ==
    [r EXCEPT !.principal = IF auth.ok THEN Some(auth.user[1].id) ELSE None,
              !.path_id = path_id]

Register(user_info) ==
    /\ Accepting
    /\ \E r \in {register(users, user_info, now)} :
          /\ users' = r.users
          /\ resp' = r.resp
    /\ UNCHANGED <<plans, nextPlanId, now, issued, inflight, held, call>>

Login(user_login) ==
    /\ Accepting
    /\ \E r \in {login(users, user_login, now)} :
          \E tokens \in {IF r.status = 200
                         THEN {r.access_token[1], r.refresh_token[1]} ELSE {}} :
             /\ Cardinality(issued \cup tokens) <= 2 * MaxLogins
             /\ resp' = r
             /\ issued' = issued \cup tokens
    /\ UNCHANGED <<users, plans, nextPlanId, now, inflight, held, call>>

GetMe(credentials) ==
    /\ Accepting
    /\ \E auth \in {get_current_user(credentials, users, now)} :
          resp' = Echo(IF ~auth.ok THEN Raise("get_me", auth.exc)
                       ELSE [Response("get_me", 200, "") EXCEPT !.user = auth.user],
                       auth, None)
    /\ UNCHANGED <<users, plans, nextPlanId, now, issued, inflight, held, call>>

GetUser(credentials, user_id) ==
    /\ Accepting
    /\ \E auth \in {get_current_user(credentials, users, now)} :
          resp' = Echo(IF ~auth.ok THEN Raise("get_user", auth.exc)
                       ELSE get_user(users, user_id),
                       auth, Some(user_id))
    /\ UNCHANGED <<users, plans, nextPlanId, now, issued, inflight, held, call>>

ChangePassword(credentials, user_id, password_update) ==
    /\ Accepting
    /\ \E auth \in {get_current_user(credentials, users, now)} :
          \E r \in {IF ~auth.ok THEN Result(Raise("change_password", auth.exc), users)
                    ELSE change_password(users, auth.user[1], user_id, password_update, now)} :
             /\ users' = r.users
             /\ resp' = Echo(r.resp, auth, Some(user_id))
    /\ UNCHANGED <<plans, nextPlanId, now, issued, inflight, held, call>>

UpdateUser(credentials, user_id, user_update) ==
    /\ Accepting
    /\ \E auth \in {get_current_user(credentials, users, now)} :
          \E r \in {IF ~auth.ok THEN Result(Raise("update_user", auth.exc), users)
                    ELSE update_user(users, auth.user[1], user_id, user_update, now)} :
             /\ users' = r.users
             /\ resp' = Echo(r.resp, auth, Some(user_id))
    /\ UNCHANGED <<plans, nextPlanId, now, issued, inflight, held, call>>

\* The user API: every request of the user router, one at a time.
Next ==
    \/ Deliver
    \/ Tick(LongDelta)
    \/ \E user_info \in RegisteredUsers : Register(user_info)
    \/ \E user_login \in UserLogins : Login(user_login)
    \/ \E c \in Credentials : GetMe(c)
    \/ \E c \in Credentials, user_id \in PathUserIds : GetUser(c, user_id)
    \/ \E c \in Credentials, user_id \in PathUserIds, pu \in ChangedPasswords :
          ChangePassword(c, user_id, pu)
    \/ \E c \in Credentials, user_id \in PathUserIds, uu \in UpdatedUsers :
          UpdateUser(c, user_id, uu)

Spec == Init /\ [][Next]_vars

(***************************************************************************)
(* Component level: the token service, the gateway and login called        *)
(* directly, on stores that also hold deactivated principals (is_active    *)
(* is a column of "users" that only the operator of the database sets).    *)
(***************************************************************************)
Subjects == Usernames \cup {"carol"}   \* "carol" is never a stored username
ExpiresDeltas == Optional({-1, 0, 1, 2})   \* seconds; None selects the default

StoredUser(id, e, u, p, active) ==
    [DBUser(id, RegisteredUser(e, u, p), get_password_hash(p), 0) EXCEPT !.is_active = active]

UnitStores ==
    {<<>>,
     <<StoredUser(1, "a@x", "alice", "pw1", TRUE)>>,
     <<StoredUser(1, "a@x", "alice", "pw1", FALSE)>>,
     <<StoredUser(1, "a@x", "alice", "pw1", TRUE), StoredUser(2, "b@x", "bob", "pw1", FALSE)>>}

UnitLogins == [username : Subjects, password : Passwords]

UnitInit ==
    /\ users \in UnitStores
    /\ plans = <<>>
    /\ nextPlanId = 0
    /\ now = 0
    /\ issued = {}
    /\ inflight = [s \in 1..MaxInflight |-> Idle]
    /\ resp = NoResponse
    /\ held = None
    /\ call = NoCall

\* The tokens a caller can present: the one it holds, that token's claims
\* under a signature of another key, and a string that is no JWT.
Presentable ==
    IF IsNone(held) THEN {MalformedToken}
    ELSE {held[1].token, [held[1].token EXCEPT !.sig = "forged"], MalformedToken}

CallCreateToken(fn, sub, expires_delta) ==
    LET token == IF fn = "create_access_token"
                 THEN create_access_token(sub, expires_delta, now)
                 ELSE create_refresh_token(sub, expires_delta, now)
        made == [fn |-> fn, sub |-> sub, expires_delta |-> expires_delta,
                 at |-> now, token |-> token]
    IN /\ held' = Some(made)
       /\ call' = made
       /\ UNCHANGED <<users, plans, nextPlanId, now, issued, inflight, resp>>

CallVerifyToken(token, token_type) ==
    /\ call' = [fn |-> "verify_token", token |-> token, token_type |-> token_type,
                at |-> now, result |-> verify_token(token, token_type, now)]
    /\ UNCHANGED <<users, plans, nextPlanId, now, issued, inflight, resp, held>>

CallGetCurrentUser(credentials) ==
    /\ call' = [fn |-> "get_current_user", credentials |-> credentials,
                at |-> now, result |-> get_current_user(credentials, users, now)]
    /\ UNCHANGED <<users, plans, nextPlanId, now, issued, inflight, resp, held>>

CallLogin(user_login) ==
    /\ call' = [fn |-> "login", user_login |-> user_login,
                at |-> now, result |-> login(users, user_login, now)]
    /\ UNCHANGED <<users, plans, nextPlanId, now, issued, inflight, resp, held>>

UnitNext ==
    \/ \E d \in {1, LongDelta} : Tick(d)
    \/ \E fn \in {"create_access_token", "create_refresh_token"},
          sub \in Optional(Subjects), expires_delta \in ExpiresDeltas :
          CallCreateToken(fn, sub, expires_delta)
    \/ \E token \in Presentable, token_type \in TokenTypes : CallVerifyToken(token, token_type)
    \/ \E token \in Presentable : CallGetCurrentUser(Some(token))
    \/ CallGetCurrentUser(None)
    \/ \E user_login \in UnitLogins : CallLogin(user_login)

UnitSpec == UnitInit /\ [][UnitNext]_vars

(***************************************************************************)
(* The travel-plan API.  It starts in the state the user API reaches when  *)
(* two principals have registered and logged in (the user API above        *)
(* explores the other user states; no travel request changes "users").     *)
(***************************************************************************)
PlanRegisteredUsers ==
    <<RegisteredUser("a@x", "alice", "pw1"), RegisteredUser("b@x", "bob", "pw1")>>

PlanUsers ==
    register(register(<<>>, PlanRegisteredUsers[1], 0).users, PlanRegisteredUsers[2], 0).users

PlanIssued ==
    UNION {{login(PlanUsers, [username |-> u, password |-> "pw1"], 0).access_token[1],
            login(PlanUsers, [username |-> u, password |-> "pw1"], 0).refresh_token[1]} :
           u \in Usernames}

PlanInit ==
    /\ users = PlanUsers
    /\ plans = <<>>
    /\ nextPlanId = 0
    /\ now = 0
    /\ issued = PlanIssued
    /\ inflight = [s \in 1..MaxInflight |-> Idle]
    /\ resp = NoResponse
    /\ held = None
    /\ call = NoCall

CreateTravelPlans ==
    {[province_id |-> p, start_date |-> 100, end_date |-> 200, budget |-> b, notes |-> None] :
        p \in {1, 7, 999}, b \in {None, Some(0), Some(1500000)}}

UpdateTravelPlans ==
    {<<>>,
     [status |-> Some("completed")],
     [status |-> Some("cancelled")],
     [budget |-> Some(2000000)],
     [budget |-> Some(0)],
     [budget |-> Some(2000000), status |-> Some("completed")]}

PathPlanIds == 1 .. MaxPlans

CreateTravelPlan(credentials, travel_plan) ==
    /\ Accepting
    /\ \E auth \in {get_current_user(credentials, users, now)} :
          \E r \in {IF ~auth.ok
                    THEN PlanResult(Raise("create_travel_plan", auth.exc), plans)
                    ELSE create_travel_plan(plans, auth.user[1], travel_plan,
                                            nextPlanId + 1, now)} :
             /\ r.resp.status = 200 => nextPlanId < MaxPlans
             /\ plans' = r.plans
             /\ nextPlanId' = IF r.resp.status = 200 THEN nextPlanId + 1 ELSE nextPlanId
             /\ resp' = Echo(r.resp, auth, None)
    /\ UNCHANGED <<users, now, issued, inflight, held, call>>

GetTravelPlan(credentials, plan_id) ==
    /\ Accepting
    /\ \E auth \in {get_current_user(credentials, users, now)} :
          resp' = Echo(IF ~auth.ok THEN Raise("get_travel_plan", auth.exc)
                       ELSE get_travel_plan(plans, auth.user[1], plan_id),
                       auth, Some(plan_id))
    /\ UNCHANGED <<users, plans, nextPlanId, now, issued, inflight, held, call>>

UpdateTravelPlan(credentials, plan_id, travel_plan_update) ==
    /\ Accepting
    /\ \E auth \in {get_current_user(credentials, users, now)} :
          \E r \in {IF ~auth.ok
                    THEN PlanResult(Raise("update_travel_plan", auth.exc), plans)
                    ELSE update_travel_plan(plans, auth.user[1], plan_id,
                                            travel_plan_update, now)} :
             /\ plans' = r.plans
             /\ resp' = Echo(r.resp, auth, Some(plan_id))
    /\ UNCHANGED <<users, nextPlanId, now, issued, inflight, held, call>>

DeleteTravelPlan(credentials, plan_id) ==
    /\ Accepting
    /\ \E auth \in {get_current_user(credentials, users, now)} :
          \E r \in {IF ~auth.ok
                    THEN PlanResult(Raise("delete_travel_plan", auth.exc), plans)
                    ELSE delete_travel_plan(plans, auth.user[1], plan_id)} :
             /\ plans' = r.plans
             /\ resp' = Echo(r.resp, auth, Some(plan_id))
    /\ UNCHANGED <<users, nextPlanId, now, issued, inflight, held, call>>

GetTravelPlanTaxInfo(credentials, plan_id) ==
    /\ Accepting
    /\ \E auth \in {get_current_user(credentials, users, now)} :
          resp' = Echo(IF ~auth.ok THEN Raise("get_travel_plan_tax_info", auth.exc)
                       ELSE get_travel_plan_tax_info(plans, auth.user[1], plan_id),
                       auth, Some(plan_id))
    /\ UNCHANGED <<users, plans, nextPlanId, now, issued, inflight, held, call>>

StatusFilters == {None, Some("planned")}

GetUserTravelPlans(credentials, status_filter) ==
    /\ Accepting
    /\ \E auth \in {get_current_user(credentials, users, now)} :
          IF ~auth.ok
          THEN resp' = Echo(Raise("get_user_travel_plans", auth.exc), auth, None)
          ELSE \E rows \in select_user_plans(plans, auth.user[1].id, status_filter) :
                  resp' = Echo(get_user_travel_plans(rows, now), auth, None)
    /\ UNCHANGED <<users, plans, nextPlanId, now, issued, inflight, held, call>>

\* Besides the travel router: the reads of the user router, and its writes
\* sent without a credential (no travel request changes "users").
PlanNext ==
    \/ Deliver
    \/ \E c \in Credentials : GetMe(c)
    \/ \E c \in Credentials, user_id \in PathUserIds : GetUser(c, user_id)
    \/ \E user_id \in PathUserIds, pu \in ChangedPasswords : ChangePassword(None, user_id, pu)
    \/ \E user_id \in PathUserIds, uu \in UpdatedUsers : UpdateUser(None, user_id, uu)
    \/ \E c \in Credentials, tp \in CreateTravelPlans : CreateTravelPlan(c, tp)
    \/ \E c \in Credentials, sf \in StatusFilters : GetUserTravelPlans(c, sf)
    \/ \E c \in Credentials, plan_id \in PathPlanIds : GetTravelPlan(c, plan_id)
    \/ \E c \in Credentials, plan_id \in PathPlanIds, tpu \in UpdateTravelPlans :
          UpdateTravelPlan(c, plan_id, tpu)
    \/ \E c \in Credentials, plan_id \in PathPlanIds : DeleteTravelPlan(c, plan_id)
    \/ \E c \in Credentials, plan_id \in PathPlanIds : GetTravelPlanTaxInfo(c, plan_id)

PlanSpec == PlanInit /\ [][PlanNext]_vars

(***************************************************************************)
(* The travel-plan API under requests whose budget or status is outside    *)
(* the documented range: CreateTravelPlan.budget and UpdateTravelPlan      *)
(* .budget are any Decimal, UpdateTravelPlan.status is any string.         *)
(***************************************************************************)
RangeCreateTravelPlans ==
    {[province_id |-> 1, start_date |-> 100, end_date |-> 200, budget |-> b, notes |-> None] :
        b \in {None, Some(1500000), Some(-100000)}}

RangeUpdateTravelPlans ==
    {[status |-> Some("ongoing")],
     [status |-> Some("confirmed")],
     [status |-> Some("archived")],
     [budget |-> Some(2000000)],
     [budget |-> Some(-100000)]}

RangeNext ==
    \/ Deliver
    \/ \E c \in Credentials, tp \in RangeCreateTravelPlans : CreateTravelPlan(c, tp)
    \/ \E c \in Credentials, plan_id \in PathPlanIds, tpu \in RangeUpdateTravelPlans :
          UpdateTravelPlan(c, plan_id, tpu)

RangeSpec == PlanInit /\ [][RangeNext]_vars

(***************************************************************************)
(* Interleaved requests.  A handler is a coroutine: between two awaits it  *)
(* runs alone, at an await another request may run.  register awaits its   *)
(* two SELECTs and its commit, so a register request is at one of three    *)
(* positions; each request has a session of its own, and the store is      *)
(* what has been committed.                                                *)
(***************************************************************************)
Slots == 1 .. MaxInflight
FreeSlots == {s \in Slots : inflight[s] = Idle}
At(s, pc) == inflight[s] # Idle /\ inflight[s].pc = pc

\* register up to the answer of "select ... where email == user_info.email"
RegisterCheckEmail(user_info) ==
    /\ Accepting
    /\ FreeSlots # {}
    /\ IF email_registered(users, user_info.email)
       THEN /\ resp' = Raise("register", email_already_registered)
            /\ UNCHANGED inflight
       ELSE /\ inflight' = [inflight EXCEPT ![CHOOSE s \in FreeSlots : \A o \in FreeSlots : s <= o] =
                               [pc |-> "check_username", user_info |-> user_info]]
            /\ UNCHANGED resp
    /\ UNCHANGED <<users, plans, nextPlanId, now, issued, held, call>>

\* ... up to the answer of "select ... where username == user_info.username"
RegisterCheckUsername(s) ==
    /\ Accepting
    /\ At(s, "check_username")
    /\ IF username_taken(users, inflight[s].user_info.username)
       THEN /\ resp' = Raise("register", username_already_taken)
            /\ inflight' = [inflight EXCEPT ![s] = Idle]
       ELSE /\ inflight' = [inflight EXCEPT ![s].pc = "create"]
            /\ UNCHANGED resp
    /\ UNCHANGED <<users, plans, nextPlanId, now, issued, held, call>>

\* ... session.add(db_user); await session.commit(); the response
RegisterCreate(s) ==
    /\ Accepting
    /\ At(s, "create")
    /\ \E r \in {register_create(users, inflight[s].user_info, now)} :
          /\ users' = r.users
          /\ resp' = r.resp
    /\ inflight' = [inflight EXCEPT ![s] = Idle]
    /\ UNCHANGED <<plans, nextPlanId, now, issued, held, call>>

ConcLogins == [username : Usernames, password : {"pw1"}]
ConcChangedPasswords == {[old_password |-> "pw1", new_password |-> "pw2"]}

ConcNext ==
    \/ Deliver
    \/ \E user_info \in RegisteredUsers : RegisterCheckEmail(user_info)
    \/ \E s \in Slots : RegisterCheckUsername(s)
    \/ \E s \in Slots : RegisterCreate(s)
    \/ \E user_login \in ConcLogins : Login(user_login)
    \/ \E c \in Credentials, user_id \in PathUserIds, pu \in ConcChangedPasswords :
          ChangePassword(c, user_id, pu)
    \/ \E c \in Credentials, user_id \in PathUserIds, uu \in UpdatedUsers :
          UpdateUser(c, user_id, uu)

ConcSpec == Init /\ [][ConcNext]_vars

(***************************************************************************)
(* Interleaved update_travel_plan requests.  The handler awaits            *)
(* session.get, assigns the supplied fields (awaiting the region when a    *)
(* budget was supplied) and awaits session.commit.  Other requests see     *)
(* its writes at the commit only, so a request is either before its        *)
(* session.get or holds the row as its session loaded it, and its          *)
(* assignments and commit are one step.  The flush writes the columns      *)
(* whose value differs from the loaded one (the unit of work emits UPDATE  *)
(* for net changes only).                                                  *)
(***************************************************************************)
\* "Update fields if provided" .. "travel_plan.updated_at = utc_now()": the
\* row in the session before the commit.
update_travel_plan_assign(travel_plan, travel_plan_update, t) ==
    LET assigned == [travel_plan EXCEPT
            !.start_date = setattr_all(travel_plan, travel_plan_update, "start_date"),
            !.end_date = setattr_all(travel_plan, travel_plan_update, "end_date"),
            !.budget = setattr_all(travel_plan, travel_plan_update, "budget"),
            !.status = setattr_all(travel_plan, travel_plan_update, "status"),
            !.notes = setattr_all(travel_plan, travel_plan_update, "notes")]
        province == session_get_province(assigned.province_id)
        recalculated ==
            IF /\ "budget" \in DOMAIN travel_plan_update
               /\ TruthyDecimal(assigned.budget)
               /\ ~IsNone(province)
            THEN [assigned EXCEPT !.estimated_tax_reduction =
                     Some(tax_reduction(assigned.budget[1], province[1]))]
            ELSE assigned
    IN [recalculated EXCEPT !.updated_at = Some(t)]

\* The columns of table "travel_plans".
PlanColumns ==
    {"id", "user_id", "province_id", "start_date", "end_date", "budget",
     "estimated_tax_reduction", "status", "notes", "created_at", "updated_at"}

\* session.add(travel_plan); await session.commit(): UPDATE travel_plans SET
\* <each column whose value in the session differs from the loaded value>
\* WHERE id = travel_plan.id; the other columns keep what is stored.
flush_update(ps, loaded, row) ==
    [ps EXCEPT ![row.id] =
        [f \in PlanColumns |-> IF row[f] # loaded[f] THEN row[f] ELSE ps[row.id][f]]]

\* The plan the owner created before the interleaved requests.
RacePlan ==
    [province_id |-> 1, start_date |-> 100, end_date |-> 200,
     budget |-> Some(1500000), notes |-> None]

RacePlans == create_travel_plan(<<>>, User(PlanUsers[1]), RacePlan, 1, 0).plans

RaceUpdateTravelPlans ==
    {[budget |-> Some(2000000)],
     [budget |-> Some(1500000)],
     [status |-> Some("completed")],
     [budget |-> Some(2000000), status |-> Some("cancelled")]}

\* call.log is the order in which the requests loaded and committed.
RaceInit ==
    /\ users = PlanUsers
    /\ plans = RacePlans
    /\ nextPlanId = 1
    /\ now = 0
    /\ issued = PlanIssued
    /\ inflight = [s \in 1..MaxInflight |-> Idle]
    /\ resp = NoResponse
    /\ held = None
    /\ call = [fn |-> "update_travel_plan", log |-> <<>>]

Loads == {i \in DOMAIN call.log : call.log[i].kind = "load"}

\* update_travel_plan up to the answer of session.get (and the owner check)
UpdateLoad(credentials, plan_id, travel_plan_update) ==
    /\ Accepting
    /\ FreeSlots # {}
    /\ Cardinality(Loads) < MaxUpdates
    /\ \E auth \in {get_current_user(credentials, users, now)} :
          LET travel_plan == session_get_plan(plans, plan_id) IN
          IF ~auth.ok
          THEN /\ resp' = Echo(Raise("update_travel_plan", auth.exc), auth, Some(plan_id))
               /\ UNCHANGED <<inflight, call>>
          ELSE IF IsNone(travel_plan) \/ travel_plan[1].user_id # auth.user[1].id
          THEN /\ resp' = Echo(Raise("update_travel_plan", travel_plan_not_found),
                               auth, Some(plan_id))
               /\ UNCHANGED <<inflight, call>>
          ELSE /\ inflight' =
                    [inflight EXCEPT ![CHOOSE s \in FreeSlots : \A o \in FreeSlots : s <= o] =
                        [pc |-> "loaded", n |-> Cardinality(Loads) + 1,
                         current_user |-> auth.user[1], plan_id |-> plan_id,
                         travel_plan_update |-> travel_plan_update,
                         travel_plan |-> travel_plan[1]]]
               /\ call' = [call EXCEPT !.log = Append(@,
                              [kind |-> "load", n |-> Cardinality(Loads) + 1,
                               travel_plan_update |-> travel_plan_update, status |-> 0])]
               /\ UNCHANGED resp
    /\ UNCHANGED <<users, plans, nextPlanId, now, issued, held>>

\* ... the assignments, session.commit(), session.refresh() and the response
UpdateCommit(s) ==
    /\ Accepting
    /\ At(s, "loaded")
    /\ LET q == inflight[s]
           row == update_travel_plan_assign(q.travel_plan, q.travel_plan_update, now)
           ok == q.plan_id \in DOMAIN plans /\ plan_integrity_ok(row)
           after == IF ok THEN flush_update(plans, q.travel_plan, row) ELSE plans
           auth == Authenticated(q.current_user)
       IN /\ plans' = after
          /\ resp' = Echo(IF ~ok THEN Raise("update_travel_plan", internal_server_error)
                          ELSE [Response("update_travel_plan", 200, "") EXCEPT
                                   !.plan = Some(TravelPlan(after[q.plan_id],
                                                 provinces[after[q.plan_id].province_id]))],
                          auth, Some(q.plan_id))
          /\ call' = [call EXCEPT !.log = Append(@,
                         [kind |-> "commit", n |-> q.n,
                          travel_plan_update |-> q.travel_plan_update,
                          status |-> IF ok THEN 200 ELSE 500])]
    /\ inflight' = [inflight EXCEPT ![s] = Idle]
    /\ UNCHANGED <<users, nextPlanId, now, issued, held>>

RaceNext ==
    \/ Deliver
    \/ \E c \in Credentials, plan_id \in PathPlanIds, tpu \in RaceUpdateTravelPlans :
          UpdateLoad(c, plan_id, tpu)
    \/ \E s \in Slots : UpdateCommit(s)

RaceSpec == RaceInit /\ [][RaceNext]_vars

(***************************************************************************)
(* get_user_travel_plans on stores of several plans.  Times are seconds    *)
(* relative to the first listing: the plans were created before it.        *)
(***************************************************************************)
\* The row left by create_travel_plan of user_id at created_at and, for a
\* status other than "planned", by the owner's update of the status.
StoredPlan(id, user_id, province_id, start_date, budget, status, created_at) ==
    LET travel_plan == [province_id |-> province_id, start_date |-> start_date,
                        end_date |-> start_date + 7, budget |-> budget, notes |-> None]
        created == create_travel_plan(<<>>, [id |-> user_id], travel_plan,
                                      id, created_at).plans[id]
    IN IF status = "planned" THEN created
       ELSE update_travel_plan_assign(created, [status |-> Some(status)], created_at)

\* Stores of two plans of principal 1 with estimates 1.20 or 2.40 (12% of
\* 10.00 and of 20.00), the second one created later.
PairStores ==
    {<<StoredPlan(1, 1, 2, 100000, Some(b1), st1, -3),
       StoredPlan(2, 1, 2, s2, Some(b2), "planned", -2)>> :
        b1 \in {1000, 2000}, b2 \in {1000, 2000},
        st1 \in {"planned", "completed"}, s2 \in {100, 100000}}

\* No plan; two plans of principal 1 created in the same instant and one of
\* principal 2; seven plans of principal 1, six of them upcoming at the first
\* listing and five after the clock has passed start date 100, and one of
\* principal 2; two plans of principal 2 created in the same instant and one
\* of principal 1; and the stores of two plans above.
ListStores ==
    {<<>>,
     <<StoredPlan(1, 1, 2, 100000, Some(1000), "planned", -2),
       StoredPlan(2, 1, 2, 100000, Some(2000), "planned", -2),
       StoredPlan(3, 2, 1, 100000, Some(1500000), "planned", -1)>>,
     <<StoredPlan(1, 1, 1, 100000, None, "planned", -8),
       StoredPlan(2, 1, 1, 100000, None, "confirmed", -7),
       StoredPlan(3, 1, 1, 100, Some(1500000), "planned", -6),
       StoredPlan(4, 1, 7, 100000, Some(1500000), "completed", -5),
       StoredPlan(5, 1, 1, 100000, None, "planned", -4),
       StoredPlan(6, 1, 1, 100000, None, "confirmed", -3),
       StoredPlan(7, 1, 1, 100000, Some(2000000), "planned", -2),
       StoredPlan(8, 2, 1, 100000, None, "cancelled", -1)>>,
     <<StoredPlan(1, 2, 2, 100000, Some(1000), "planned", -3),
       StoredPlan(2, 2, 1, 100, Some(2000000), "confirmed", -3),
       StoredPlan(3, 1, 1, 100, None, "cancelled", -1)>>}
    \cup PairStores

ListStatusFilters ==
    {None, Some("planned"), Some("confirmed"), Some("completed"), Some("cancelled")}

ListInit ==
    /\ users = PlanUsers
    /\ plans \in ListStores
    /\ nextPlanId = Len(plans)
    /\ now = 0
    /\ issued = PlanIssued
    /\ inflight = [s \in 1..MaxInflight |-> Idle]
    /\ resp = NoResponse
    /\ held = None
    /\ call = NoCall

ListNext ==
    \/ Deliver
    \/ Tick(LongDelta)
    \/ \E c \in Credentials, sf \in ListStatusFilters : GetUserTravelPlans(c, sf)

ListSpec == ListInit /\ [][ListNext]_vars

(***************************************************************************)
(* routers/v1/province_router.py: get_province_tax_benefits, called        *)
(* directly.  budget is a float in THB, modelled by a whole number of      *)
(* baht; budget * (percentage / 100) is modelled exactly, as a number of   *)
(* hundredths of a baht (10000 baht at 15% is 150000).                     *)
(***************************************************************************)
\* budget * (float(province.tax_reduction_percentage) / 100)
budget_times_rate(budget, province) == budget * province.tax_reduction_percentage

\* The dict appended to comparisons for other_province.
comparison(budget, estimated_tax_reduction, other_province) ==
    LET other_reduction == budget_times_rate(budget, other_province)
        difference == other_reduction - estimated_tax_reduction
    IN [province_id |-> other_province.id,
        tax_reduction_percentage |-> other_province.tax_reduction_percentage,
        estimated_reduction |-> other_reduction,
        difference |-> difference,
        is_better |-> difference > 0]

\* Faulty variant: an ascending sort that is then reversed, which also
\* reverses the order of equal entries.
RECURSIVE sort_then_reverse(_)
sort_then_reverse(comparisons) ==
    IF comparisons = <<>> THEN <<>>
    ELSE LET x == comparisons[Len(comparisons)]
             sorted == sort_then_reverse(SubSeq(comparisons, 1, Len(comparisons) - 1))
             k == Cardinality({i \in DOMAIN sorted :
                                  sorted[i].estimated_reduction > x.estimated_reduction})
         IN SubSeq(sorted, 1, k) \o <<x>> \o SubSeq(sorted, k + 1, Len(sorted))

\* comparisons.sort(key=lambda x: x["estimated_reduction"], reverse=True):
\* list.sort is stable, and with reverse=True equal entries keep their order.
\* Each entry is placed behind the entries that are not smaller.
RECURSIVE sort_reverse(_)
sort_reverse(comparisons) ==
    IF comparisons = <<>> THEN <<>>
    ELSE LET x == comparisons[Len(comparisons)]
             sorted == sort_reverse(SubSeq(comparisons, 1, Len(comparisons) - 1))
             k == Cardinality({i \in DOMAIN sorted :
                                  sorted[i].estimated_reduction >= x.estimated_reduction})
         IN SubSeq(sorted, 1, k) \o <<x>> \o SubSeq(sorted, k + 1, Len(sorted))

\* await session.get(DBProvince, province_id) on the rows of table "provinces"
session_get_province_in(all_provinces, province_id) ==
    first(all_provinces, {i \in DOMAIN all_provinces : all_provinces[i].id = province_id})

\* all_provinces is the answer of select(DBProvince), in the order the
\* database returns the rows.
get_province_tax_benefits(all_provinces, province_id, budget) ==
    LET province == session_get_province_in(all_provinces, province_id) IN
    IF IsNone(province)
    THEN [status |-> 404, detail |-> province_not_found.detail, body |-> None]
    ELSE LET estimated_tax_reduction == budget_times_rate(budget, province[1])
             comparisons == [i \in DOMAIN all_provinces |->
                                comparison(budget, estimated_tax_reduction, all_provinces[i])]
         IN [status |-> 200, detail |-> "",
             body |-> Some(
                [province |-> province[1],
                 budget |-> budget,
                 estimated_tax_reduction |-> estimated_tax_reduction,
                 tax_reduction_rate |-> province[1].tax_reduction_percentage,
                 comparison_with_other_provinces |->
                    slice_to(sort_reverse(comparisons), 10)])]

\* The rows the test fixture adds to the table: 1001 at 15.00, 1002 at 0.00.
test_provinces ==
    <<[id |-> 1001, tax_reduction_percentage |-> 15, is_secondary_province |-> TRUE],
      [id |-> 1002, tax_reduction_percentage |-> 0, is_secondary_province |-> FALSE]>>

\* reversed(rows)
RECURSIVE Reversed(_)
Reversed(rows) ==
    IF rows = <<>> THEN <<>> ELSE <<rows[Len(rows)]>> \o Reversed(SubSeq(rows, 1, Len(rows) - 1))

\* Answers of select(DBProvince): the seeded table and the table that also
\* holds the fixture's rows, in primary-key order and in the opposite order
\* (the query has no ORDER BY).
Catalogs ==
    {provinces, Reversed(provinces),
     provinces \o test_provinces, test_provinces \o Reversed(provinces)}

\* Path ids: every seeded id, the fixture's ids and an id of no row.
BenefitProvinceIds == (1 .. 10) \cup {1001, 1002, 999}

\* Budgets in baht: none, the test's, one that is no multiple of 100, a
\* negative one (the query parameter is any float).
Budgets == {0, 10000, 333, -500}

CallGetProvinceTaxBenefits(all_provinces, province_id, budget) ==
    /\ call' = [fn |-> "get_province_tax_benefits", all_provinces |-> all_provinces,
                province_id |-> province_id, budget |-> budget,
                result |-> get_province_tax_benefits(all_provinces, province_id, budget)]
    /\ UNCHANGED <<users, plans, nextPlanId, now, issued, inflight, resp, held>>

BenefitNext ==
    \E all_provinces \in Catalogs, province_id \in BenefitProvinceIds, budget \in Budgets :
        CallGetProvinceTaxBenefits(all_provinces, province_id, budget)

BenefitSpec == Init /\ [][BenefitNext]_vars

(***************************************************************************)
(* Properties.                                                             *)
(***************************************************************************)
\* The caller of the token service presents exactly the token it was given.
PresentsHeld(token) == ~IsNone(held) /\ token = held[1].token
HeldFrom(fn) == ~IsNone(held) /\ held[1].fn = fn
Stored(username) == {i \in DOMAIN users : users[i].username = username}

\* C1: a refresh token never verifies as an access token and an access token
\* never verifies as a refresh token, whatever its subject and ttl; the gateway
\* answers a refresh token with the unauthenticated outcome (401).
C1_KindsNeverCross ==
    /\ (/\ call.fn = "verify_token"
        /\ PresentsHeld(call.token)
        /\ HeldFrom("create_refresh_token")
        /\ call.token_type = "access") => IsNone(call.result)
    /\ (/\ call.fn = "verify_token"
        /\ PresentsHeld(call.token)
        /\ HeldFrom("create_access_token")
        /\ call.token_type = "refresh") => IsNone(call.result)
    /\ (/\ call.fn = "get_current_user"
        /\ ~IsNone(call.credentials)
        /\ PresentsHeld(call.credentials[1])
        /\ HeldFrom("create_refresh_token")) =>
            /\ call.result = Rejected(credentials_exception)
            /\ call.result.exc.status_code = 401

\* C1 witness: an unexpired refresh token of a stored active principal was
\* presented to the gateway and rejected with 401.
C1_Witness ==
    /\ call.fn = "get_current_user"
    /\ ~IsNone(call.credentials)
    /\ PresentsHeld(call.credentials[1])
    /\ HeldFrom("create_refresh_token")
    /\ held[1].sub = Some("alice")
    /\ held[1].expires_delta = Some(2)
    /\ call.at < held[1].at + 2
    /\ \E i \in Stored("alice") : users[i].is_active
    /\ call.result.exc.status_code = 401

\* C3: an access token made by create_access_token for subject u with a
\* positive ttl verifies as an access token to exactly u at every time before
\* issue time + ttl.
C3_AccessRoundTrip ==
    (/\ call.fn = "verify_token"
     /\ PresentsHeld(call.token)
     /\ HeldFrom("create_access_token")
     /\ ~IsNone(held[1].sub)
     /\ ~IsNone(held[1].expires_delta)
     /\ held[1].expires_delta[1] > 0
     /\ call.at < held[1].at + held[1].expires_delta[1]
     /\ call.token_type = "access") => call.result = held[1].sub

\* C3 witness: such a token was verified one second after it was issued.
C3_Witness ==
    /\ call.fn = "verify_token"
    /\ PresentsHeld(call.token)
    /\ HeldFrom("create_access_token")
    /\ held[1].sub = Some("carol")
    /\ held[1].expires_delta = Some(2)
    /\ call.at = held[1].at + 1
    /\ call.token_type = "access"
    /\ call.result = Some("carol")

\* A token that is expired, forged, malformed or without a subject.
Unusable(token, at) ==
    \/ token.sig # "valid"
    \/ IsNone(token.sub)
    \/ token.exp < at

\* C4: a token whose expiry is in the past (one issued with ttl = -1 second
\* included) verifies as invalid, and an expired token, a forged signature, a
\* malformed envelope and a token without subject all give the one outcome
\* None from verify_token and the one 401 from the gateway.
C4_InvalidIsUniform ==
    /\ (/\ call.fn = "verify_token"
        /\ PresentsHeld(call.token)
        /\ held[1].expires_delta = Some(-1)) => IsNone(call.result)
    /\ (call.fn = "verify_token" /\ Unusable(call.token, call.at)) => IsNone(call.result)
    /\ (/\ call.fn = "get_current_user"
        /\ ~IsNone(call.credentials)
        /\ Unusable(call.credentials[1], call.at)) =>
            call.result = Rejected(credentials_exception)

\* C4 witness: the access token of a stored active principal, issued with
\* ttl = -1, was presented to the gateway and rejected with 401.
C4_Witness ==
    /\ call.fn = "get_current_user"
    /\ ~IsNone(call.credentials)
    /\ PresentsHeld(call.credentials[1])
    /\ HeldFrom("create_access_token")
    /\ held[1].sub = Some("alice")
    /\ held[1].expires_delta = Some(-1)
    /\ \E i \in Stored("alice") : users[i].is_active
    /\ call.result = Rejected(credentials_exception)

\* An access token of the server, with a subject, not yet expired.
ValidAccess(credentials, at) ==
    /\ PresentsHeld(credentials[1])
    /\ HeldFrom("create_access_token")
    /\ ~IsNone(held[1].sub)
    /\ at <= held[1].token.exp

\* C5: the gateway answers an invalid access token with 401, a valid token
\* of an unknown subject with 401, a valid token of an inactive principal with
\* 400 (not 401), and only a valid token of a stored active principal with that
\* principal's view.
C5_GatewayOutcomes ==
    (call.fn = "get_current_user" /\ ~IsNone(call.credentials)) =>
        IF ~ValidAccess(call.credentials, call.at)
        THEN call.result = Rejected(credentials_exception)
        ELSE IF Stored(held[1].sub[1]) = {}
        THEN call.result = Rejected(credentials_exception)
        ELSE \A i \in Stored(held[1].sub[1]) :
                IF ~users[i].is_active
                THEN /\ ~call.result.ok
                     /\ call.result.exc.status_code = 400
                     /\ call.result.exc # credentials_exception
                ELSE /\ call.result.ok
                     /\ call.result.user = Some(User(users[i]))

\* C5 witness: a valid token of a deactivated principal was answered with 400.
C5_Witness ==
    /\ call.fn = "get_current_user"
    /\ ~IsNone(call.credentials)
    /\ ValidAccess(call.credentials, call.at)
    /\ \E i \in Stored(held[1].sub[1]) : ~users[i].is_active
    /\ call.result.exc.status_code = 400

\* C9: a login with a username no principal has and a login with a stored
\* username and a wrong password get the same response (401, same detail and
\* headers), also when the stored principal is inactive.
C9_LoginEnumeration ==
    call.fn = "login" =>
        LET unknown == Stored(call.user_login.username) = {}
            wrong == \E i \in Stored(call.user_login.username) :
                        users[i].hashed_password.digest_of # call.user_login.password
        IN (unknown \/ wrong) =>
              /\ call.result = Raise("login", incorrect_username_or_password)
              /\ call.result.status = 401

\* C9 witness: a wrong password for a stored inactive principal was answered
\* with the 401 of an unknown username.
C9_Witness ==
    /\ call.fn = "login"
    /\ \E i \in Stored(call.user_login.username) :
          /\ ~users[i].is_active
          /\ users[i].hashed_password.digest_of # call.user_login.password
    /\ call.result = Raise("login", incorrect_username_or_password)

\* The request carried the unexpired access token tok of the stored principal
\* with id a.
AccessTokenOf(tok, a) ==
    /\ tok \in issued
    /\ tok.type = "access"
    /\ now < tok.exp
    /\ a \in DOMAIN users
    /\ tok.sub = Some(users[a].username)

\* An id that no plan has: the one the next created plan would get.
NoSuchPlanId == nextPlanId + 1

\* r is the NotFound answer of operation op.
AsForNoSuchPlan(r, op) ==
    /\ r.op = op
    /\ r.status = 404
    /\ r.detail = "Travel plan not found"
    /\ IsNone(r.plan)
    /\ r.headers = None

\* C2: when principal A presents its access token and names a plan that
\* another principal B owns, get_travel_plan, get_travel_plan_tax_info,
\* update_travel_plan and delete_travel_plan each answer 404 "Travel plan not
\* found", the answer A gets for a plan id that does not exist, and the plans
\* (B's among them) stay as they were.
C2_OwnershipIsolation ==
    [][resp' # NoResponse =>
       \A a \in DOMAIN users, tok \in issued, plan_id \in DOMAIN plans :
          (AccessTokenOf(tok, a) /\ plans[plan_id].user_id # users[a].id) =>
             /\ (resp'.op = "get_travel_plan" /\ GetTravelPlan(Some(tok), plan_id)) =>
                   /\ AsForNoSuchPlan(resp', "get_travel_plan")
                   /\ [resp' EXCEPT !.path_id = None] =
                         Echo(get_travel_plan(plans, User(users[a]), NoSuchPlanId),
                              Authenticated(User(users[a])), None)
                   /\ plans' = plans
             /\ (resp'.op = "get_travel_plan_tax_info" /\
                 GetTravelPlanTaxInfo(Some(tok), plan_id)) =>
                   /\ AsForNoSuchPlan(resp', "get_travel_plan_tax_info")
                   /\ [resp' EXCEPT !.path_id = None] =
                         Echo(get_travel_plan_tax_info(plans, User(users[a]), NoSuchPlanId),
                              Authenticated(User(users[a])), None)
                   /\ plans' = plans
             /\ \A tpu \in UpdateTravelPlans :
                   (resp'.op = "update_travel_plan" /\
                    UpdateTravelPlan(Some(tok), plan_id, tpu)) =>
                      /\ AsForNoSuchPlan(resp', "update_travel_plan")
                      /\ [resp' EXCEPT !.path_id = None] =
                            Echo(update_travel_plan(plans, User(users[a]), NoSuchPlanId,
                                                    tpu, now).resp,
                                 Authenticated(User(users[a])), None)
                      /\ plans' = plans
             /\ (resp'.op = "delete_travel_plan" /\ DeleteTravelPlan(Some(tok), plan_id)) =>
                   /\ AsForNoSuchPlan(resp', "delete_travel_plan")
                   /\ [resp' EXCEPT !.path_id = None] =
                         Echo(delete_travel_plan(plans, User(users[a]), NoSuchPlanId).resp,
                              Authenticated(User(users[a])), None)
                   /\ plans' = plans
      ]_vars

\* C2 witness: a principal asked to delete a stored plan of another principal,
\* was answered 404, and the plan is still stored.
C2_Witness ==
    /\ resp.op = "delete_travel_plan"
    /\ resp.status = 404
    /\ ~IsNone(resp.principal)
    /\ ~IsNone(resp.path_id)
    /\ resp.path_id[1] \in DOMAIN plans
    /\ plans[resp.path_id[1]].user_id # resp.principal[1]

\* A request to a protected operation without a bearer credential.
ProtectedWithoutCredential ==
    \/ resp'.op = "get_me" /\ GetMe(None)
    \/ resp'.op = "get_user" /\ \E user_id \in PathUserIds : GetUser(None, user_id)
    \/ resp'.op = "change_password" /\
          \E user_id \in PathUserIds, pu \in ChangedPasswords : ChangePassword(None, user_id, pu)
    \/ resp'.op = "update_user" /\
          \E user_id \in PathUserIds, uu \in UpdatedUsers : UpdateUser(None, user_id, uu)
    \/ resp'.op = "create_travel_plan" /\
          \E tp \in CreateTravelPlans : CreateTravelPlan(None, tp)
    \/ resp'.op = "get_user_travel_plans" /\
          \E sf \in StatusFilters : GetUserTravelPlans(None, sf)
    \/ resp'.op = "get_travel_plan" /\
          \E plan_id \in PathPlanIds : GetTravelPlan(None, plan_id)
    \/ resp'.op = "update_travel_plan" /\
          \E plan_id \in PathPlanIds, tpu \in UpdateTravelPlans :
             UpdateTravelPlan(None, plan_id, tpu)
    \/ resp'.op = "delete_travel_plan" /\
          \E plan_id \in PathPlanIds : DeleteTravelPlan(None, plan_id)
    \/ resp'.op = "get_travel_plan_tax_info" /\
          \E plan_id \in PathPlanIds : GetTravelPlanTaxInfo(None, plan_id)

\* C6: a request to any protected operation without a bearer credential is
\* answered 403 by the bearer scheme; no caller is resolved, the response
\* carries nothing a handler produces, and no principal, plan or token is
\* created, changed or deleted.
C6_NoCredentialRejected ==
    [][(resp' # NoResponse /\ ProtectedWithoutCredential) =>
          /\ resp'.status = 403
          /\ resp'.detail = "Not authenticated"
          /\ IsNone(resp'.principal)
          /\ IsNone(resp'.user)
          /\ IsNone(resp'.plan)
          /\ users' = users
          /\ plans' = plans
          /\ nextPlanId' = nextPlanId
          /\ issued' = issued
      ]_vars

\* C6 witness: a delete request without credential for the id of a stored
\* plan was answered 403 and the plan is still stored.
C6_Witness ==
    /\ resp.op = "delete_travel_plan"
    /\ resp.status = 403
    /\ IsNone(resp.principal)
    /\ ~IsNone(resp.path_id)
    /\ resp.path_id[1] \in DOMAIN plans

EmailStored(email) == \E i \in DOMAIN users : users[i].email = email
UsernameStored(username) == \E i \in DOMAIN users : users[i].username = username

\* C7: a register request whose email a stored principal has is answered 400
\* "Email already registered" whatever its username (also when the username
\* collides too); one whose email is free and whose username a stored
\* principal has is answered 400 "Username already taken"; a register request
\* that is not answered 200 leaves the principals as they were.
C7_RegisterRejectsDuplicates ==
    [][\A user_info \in RegisteredUsers :
          Register(user_info) =>
             /\ EmailStored(user_info.email) =>
                   /\ resp'.status = 400
                   /\ resp'.detail = "Email already registered"
                   /\ users' = users
             /\ (~EmailStored(user_info.email) /\ UsernameStored(user_info.username)) =>
                   /\ resp'.status = 400
                   /\ resp'.detail = "Username already taken"
                   /\ users' = users
             /\ (~EmailStored(user_info.email) /\ ~UsernameStored(user_info.username)) =>
                   resp'.status = 200
             /\ resp'.status # 200 => users' = users
      ]_vars

\* C7 witness: with both emails and both usernames stored, a register request
\* was answered 400 "Email already registered".
C7_Witness ==
    /\ resp.op = "register"
    /\ resp.status = 400
    /\ resp.detail = "Email already registered"
    /\ \A e \in Emails : EmailStored(e)
    /\ \A u \in Usernames : UsernameStored(u)

\* C8: no two stored principals share an email, and no two share a username.
C8_IdentityUnique ==
    \A i, j \in DOMAIN users :
        i # j => /\ users[i].email # users[j].email
                 /\ users[i].username # users[j].username

\* C8 witness: two principals are stored, one of them has changed its
\* password, and a register request that had passed both of its checks was
\* refused at its commit.
C8_Witness ==
    /\ Cardinality(DOMAIN users) = 2
    /\ \E i \in DOMAIN users : users[i].hashed_password = get_password_hash("pw2")
    /\ resp.op = "register"
    /\ resp.status = 500

\* C10: a login is answered 200 exactly when a stored active principal has
\* the username and the password; it then issues two tokens, one access and
\* one refresh, both with the username as subject, and nothing else.  A
\* get_me request carrying an issued access token before its expiry is
\* answered 200 with the username, email and id of the principal whose
\* username is the token's subject.
C10_LoginIssuesBoundPair ==
    [][/\ \A user_login \in UserLogins :
             Login(user_login) =>
                IF \E i \in DOMAIN users :
                      /\ users[i].username = user_login.username
                      /\ users[i].hashed_password.digest_of = user_login.password
                      /\ users[i].is_active
                THEN /\ resp'.status = 200
                     /\ ~IsNone(resp'.access_token) /\ ~IsNone(resp'.refresh_token)
                     /\ resp'.access_token[1].type = "access"
                     /\ resp'.refresh_token[1].type = "refresh"
                     /\ resp'.access_token[1].sub = Some(user_login.username)
                     /\ resp'.refresh_token[1].sub = Some(user_login.username)
                     /\ resp'.access_token[1].sig = "valid"
                     /\ resp'.refresh_token[1].sig = "valid"
                     /\ issued' = issued \cup {resp'.access_token[1], resp'.refresh_token[1]}
                     /\ resp'.user[1].username = user_login.username
                ELSE /\ resp'.status # 200
                     /\ IsNone(resp'.access_token) /\ IsNone(resp'.refresh_token)
                     /\ issued' = issued
       /\ \A a \in DOMAIN users, tok \in issued :
             (AccessTokenOf(tok, a) /\ GetMe(Some(tok))) =>
                /\ resp'.status = 200
                /\ resp'.user[1].username = users[a].username
                /\ resp'.user[1].email = users[a].email
                /\ resp'.user[1].id = users[a].id
                /\ resp'.principal = Some(users[a].id)
      ]_vars

\* C10 witness: with two principals stored, the second one has logged in after
\* the clock advanced and get_me with an issued access token returned it.
C10_Witness ==
    /\ resp.op = "get_me"
    /\ resp.status = 200
    /\ Cardinality(DOMAIN users) = 2
    /\ now > 0
    /\ resp.user[1].username = "bob"
    /\ \E tok \in issued : tok.type = "access" /\ tok.sub = Some("bob") /\ now < tok.exp

\* The estimate of a budget in the region with id province_id.
EstimateOf(budget, province_id) ==
    (budget * provinces[province_id].tax_reduction_percentage) \div 100

\* A create request of the principal a with a budget among those that B
\* allows, for a region of the catalog, stores a plan of a with status
\* "planned" and the estimate of its budget (none without a budget).
CreatePersists(B) ==
    \A a \in DOMAIN users, tok \in issued, tp \in CreateTravelPlans :
        (/\ AccessTokenOf(tok, a)
         /\ tp.province_id \in DOMAIN provinces
         /\ tp.budget \in B
         /\ CreateTravelPlan(Some(tok), tp)) =>
            /\ resp'.status = 200
            /\ DOMAIN plans' = DOMAIN plans \cup {nextPlanId'}
            /\ nextPlanId' \notin DOMAIN plans
            /\ \A i \in DOMAIN plans : plans'[i] = plans[i]
            /\ plans'[nextPlanId'].user_id = users[a].id
            /\ plans'[nextPlanId'].province_id = tp.province_id
            /\ plans'[nextPlanId'].status = Some("planned")
            /\ plans'[nextPlanId'].budget = tp.budget
            /\ plans'[nextPlanId'].estimated_tax_reduction =
                  IF IsNone(tp.budget) THEN None
                  ELSE Some(EstimateOf(tp.budget[1], tp.province_id))

\* C11: a create request of an authenticated principal for a region of the
\* catalog stores a plan owned by the caller with status "planned" and, for
\* every budget b >= 0 (b = 0 included), the estimate b * rate / 100; without
\* a budget the estimate is unset.
C11_CreateEstimatesEveryBudget ==
    [][resp'.op = "create_travel_plan" =>
          CreatePersists({tp.budget : tp \in CreateTravelPlans})]_vars

\* An update request of the owner a that supplies a budget among those that B
\* allows is answered 200, stores the budget and the estimate of it in the
\* plan's region, and keeps the status unless a status is supplied too.
UpdateRecomputes(B) ==
    \A a \in DOMAIN users, tok \in issued, plan_id \in DOMAIN plans,
       tpu \in UpdateTravelPlans :
        (/\ AccessTokenOf(tok, a)
         /\ plans[plan_id].user_id = users[a].id
         /\ "budget" \in DOMAIN tpu
         /\ tpu.budget \in B
         /\ UpdateTravelPlan(Some(tok), plan_id, tpu)) =>
            /\ resp'.status = 200
            /\ plans'[plan_id].budget = tpu.budget
            /\ plans'[plan_id].province_id = plans[plan_id].province_id
            /\ plans'[plan_id].estimated_tax_reduction =
                  Some(EstimateOf(tpu.budget[1], plans[plan_id].province_id))
            /\ plans'[plan_id].status =
                  IF "status" \in DOMAIN tpu THEN tpu.status ELSE plans[plan_id].status

\* The budget values an update request can supply.
SuppliedBudgets == {tpu.budget : tpu \in {u \in UpdateTravelPlans : "budget" \in DOMAIN u}}

\* C12: after update_travel_plan with any supplied budget value the stored
\* estimate is the new budget times the rate of the plan's region / 100, not
\* the value derived from the previous budget, and the status stays as it was
\* unless a status was supplied too.
C12_UpdateRecomputesEstimate ==
    [][resp'.op = "update_travel_plan" => UpdateRecomputes(SuppliedBudgets)]_vars

\* The fields of a plan that an update request can supply.
UpdatableFields == {"start_date", "end_date", "budget", "status", "notes"}

\* C13: an update_travel_plan request, whoever sends it, adds and removes no
\* plan and changes at most the plan it names; in that plan a field that is
\* not supplied keeps its value, a supplied field takes the supplied value,
\* the estimate changes only when a budget is supplied, and id, user_id,
\* province_id and created_at never change.
C13_PartialUpdateFrame ==
    [][resp'.op = "update_travel_plan" =>
       /\ DOMAIN plans' = DOMAIN plans
       /\ \A i \in DOMAIN plans :
             plans'[i] # plans[i] =>
                /\ resp'.path_id = Some(i)
                /\ plans'[i].id = plans[i].id
                /\ plans'[i].user_id = plans[i].user_id
                /\ plans'[i].province_id = plans[i].province_id
                /\ plans'[i].created_at = plans[i].created_at
                /\ \A c \in Credentials, tpu \in UpdateTravelPlans :
                      UpdateTravelPlan(c, i, tpu) =>
                         /\ \A f \in UpdatableFields \ DOMAIN tpu :
                               plans'[i][f] = plans[i][f]
                         /\ \A f \in DOMAIN tpu : plans'[i][f] = tpu[f]
                         /\ "budget" \notin DOMAIN tpu =>
                               plans'[i].estimated_tax_reduction =
                                  plans[i].estimated_tax_reduction
      ]_vars

\* C13 witness: an accepted update supplied only a status: the plan is
\* "completed" and still has the budget and the estimate it was created with.
C13_Witness ==
    /\ resp.op = "update_travel_plan"
    /\ resp.status = 200
    /\ ~IsNone(resp.path_id)
    /\ resp.path_id[1] \in DOMAIN plans
    /\ LET p == plans[resp.path_id[1]] IN
          /\ p.status = Some("completed")
          /\ p.budget = Some(1500000)
          /\ p.province_id = 1
          /\ p.estimated_tax_reduction = Some(225000)
          /\ ~IsNone(p.updated_at)
          /\ p.start_date = Some(100)

\* The budgets a stored plan can have.
StoredBudgets ==
    {tp.budget : tp \in CreateTravelPlans} \cup SuppliedBudgets

\* A tax-info request of the owner a for a plan whose budget is among those
\* that B allows is answered 200 with actual_tax_savings = budget * rate / 100
\* when the plan has a budget and its status is "completed", and with none
\* otherwise.
TaxInfoPolicy(B) ==
    \A a \in DOMAIN users, tok \in issued, plan_id \in DOMAIN plans :
        (/\ AccessTokenOf(tok, a)
         /\ plans[plan_id].user_id = users[a].id
         /\ plans[plan_id].budget \in B
         /\ GetTravelPlanTaxInfo(Some(tok), plan_id)) =>
            /\ resp'.status = 200
            /\ resp'.plan[1].id = plan_id
            /\ resp'.plan[1].status = plans[plan_id].status
            /\ resp'.plan[1].actual_tax_savings =
                  IF /\ ~IsNone(plans[plan_id].budget)
                     /\ plans[plan_id].status = Some("completed")
                  THEN Some(EstimateOf(plans[plan_id].budget[1], plans[plan_id].province_id))
                  ELSE None

\* C14: for the owner's plan get_travel_plan_tax_info returns
\* actual_tax_savings = budget * rate / 100 exactly when the plan has a budget
\* and its status is "completed", and none for every other status, in every
\* state that creates and updates of the plan reach.
C14_ActualSavingsPolicy ==
    [][resp'.op = "get_travel_plan_tax_info" => TaxInfoPolicy(StoredBudgets)]_vars

\* C15: a create request of an authenticated principal that names a region id
\* the catalog does not have is answered 404 "Province not found", whatever
\* its budget, and the stored plans are the same before and after.
C15_UnknownProvinceRejected ==
    [][resp'.op = "create_travel_plan" =>
       \A a \in DOMAIN users, tok \in issued, tp \in CreateTravelPlans :
          (/\ AccessTokenOf(tok, a)
           /\ tp.province_id \notin DOMAIN provinces
           /\ CreateTravelPlan(Some(tok), tp)) =>
              /\ resp'.status = 404
              /\ resp'.detail = "Province not found"
              /\ IsNone(resp'.plan)
              /\ plans' = plans
              /\ nextPlanId' = nextPlanId
      ]_vars

\* C15 witness: with one plan stored, a create request was answered 404
\* "Province not found" and one plan is stored.
C15_Witness ==
    /\ resp.op = "create_travel_plan"
    /\ resp.status = 404
    /\ resp.detail = "Province not found"
    /\ ~IsNone(resp.principal)
    /\ Cardinality(DOMAIN plans) = 1
    /\ nextPlanId = 1

\* C16: a change_password request answered 200 stores a bcrypt digest of the
\* new password for the target; from then on a login with the target's
\* username and the new password is answered 200 and one with the old
\* password, when it differs, 401.  That lasts until the next accepted
\* change: nothing else changes a stored password hash, and every login is
\* answered 200 exactly when its password is the one the stored digest is of
\* (every principal here is active), and 401 otherwise.
C16_PasswordChangeTakesEffect ==
    [][/\ (resp'.op = "change_password" /\ resp'.status = 200) =>
             \A c \in Credentials, user_id \in PathUserIds, pu \in ChangedPasswords :
                ChangePassword(c, user_id, pu) =>
                   /\ user_id \in DOMAIN users
                   /\ users'[user_id].hashed_password.scheme = "bcrypt"
                   /\ users'[user_id].hashed_password.digest_of = pu.new_password
                   /\ users[user_id].hashed_password.digest_of = pu.old_password
                   /\ login(users', [username |-> users[user_id].username,
                                     password |-> pu.new_password], now).status = 200
                   /\ pu.old_password # pu.new_password =>
                         login(users', [username |-> users[user_id].username,
                                        password |-> pu.old_password], now).status = 401
       /\ \A i \in DOMAIN users :
             (i \in DOMAIN users' /\ users'[i].hashed_password # users[i].hashed_password) =>
                (resp'.op = "change_password" /\ resp'.status = 200 /\ resp'.path_id = Some(i))
       /\ resp'.op = "login" =>
             \A user_login \in UserLogins :
                Login(user_login) =>
                   IF \E i \in DOMAIN users :
                         /\ users[i].username = user_login.username
                         /\ users[i].hashed_password.scheme = "bcrypt"
                         /\ users[i].hashed_password.digest_of = user_login.password
                   THEN resp'.status = 200
                   ELSE resp'.status = 401
      ]_vars

\* C16 witness: a principal whose stored digest is of "pw2", which only an
\* accepted change_password stores, has logged in.
C16_Witness ==
    /\ resp.op = "login"
    /\ resp.status = 200
    /\ ~IsNone(resp.user)
    /\ resp.user[1].id \in DOMAIN users
    /\ users[resp.user[1].id].hashed_password = [scheme |-> "bcrypt", digest_of |-> "pw2"]
    /\ ~IsNone(users[resp.user[1].id].updated_at)

\* C17: a change_password request of an authenticated caller whose id is not
\* the user_id of the path is answered 403 "Not enough permissions", also when
\* no principal has that user_id (the caller is compared before the target is
\* looked up); one of the target itself with an old password that does not
\* verify is answered 400 "Incorrect old password"; either way every stored
\* principal, its password hash and updated_at included, is as before.
C17_PasswordChangeRejected ==
    [][resp'.op = "change_password" =>
       \A a \in DOMAIN users, tok \in issued, user_id \in PathUserIds,
          pu \in ChangedPasswords :
          (AccessTokenOf(tok, a) /\ ChangePassword(Some(tok), user_id, pu)) =>
             /\ users[a].id # user_id =>
                   /\ resp'.status = 403
                   /\ resp'.detail = "Not enough permissions"
                   /\ users' = users
             /\ (/\ users[a].id = user_id
                 /\ users[a].hashed_password.digest_of # pu.old_password) =>
                   /\ resp'.status = 400
                   /\ resp'.detail = "Incorrect old password"
                   /\ users' = users
             /\ resp'.status # 200 => users' = users
      ]_vars

\* C17 witness: a principal whose password had been changed asked to change
\* the password of a user_id that no principal has and was answered 403.
C17_Witness ==
    /\ resp.op = "change_password"
    /\ resp.status = 403
    /\ ~IsNone(resp.principal)
    /\ ~IsNone(resp.path_id)
    /\ resp.path_id[1] \notin DOMAIN users
    /\ users[resp.principal[1]].hashed_password.digest_of = "pw2"

\* The ids of the plans that were created and are stored no more.
DeletedPlanIds == (1 .. nextPlanId) \ DOMAIN plans

\* C18: a delete request is answered 200 only to the owner of the plan and
\* then removes that plan and no other; the id of a removed plan never names a
\* stored plan again; every get, tax-info, update and delete request for it,
\* by any principal, is answered 404 and changes nothing; and no list contains
\* a plan with that id.
C18_DeletionIrreversible ==
    [][/\ \A i \in DeletedPlanIds : i \notin DOMAIN plans'
       /\ (resp'.op = "delete_travel_plan" /\ resp'.status = 200) =>
             /\ ~IsNone(resp'.path_id) /\ ~IsNone(resp'.principal)
             /\ resp'.path_id[1] \in DOMAIN plans
             /\ plans[resp'.path_id[1]].user_id = resp'.principal[1]
             /\ DOMAIN plans' = DOMAIN plans \ {resp'.path_id[1]}
             /\ \A i \in DOMAIN plans' : plans'[i] = plans[i]
       /\ resp' # NoResponse =>
             \A a \in DOMAIN users, tok \in issued, plan_id \in DeletedPlanIds :
                AccessTokenOf(tok, a) =>
                   /\ (resp'.op = "get_travel_plan" /\ GetTravelPlan(Some(tok), plan_id)) =>
                         (resp'.status = 404 /\ plans' = plans)
                   /\ (resp'.op = "get_travel_plan_tax_info" /\
                       GetTravelPlanTaxInfo(Some(tok), plan_id)) =>
                         (resp'.status = 404 /\ plans' = plans)
                   /\ (resp'.op = "delete_travel_plan" /\
                       DeleteTravelPlan(Some(tok), plan_id)) =>
                         (resp'.status = 404 /\ plans' = plans)
                   /\ \A tpu \in UpdateTravelPlans :
                         (resp'.op = "update_travel_plan" /\
                          UpdateTravelPlan(Some(tok), plan_id, tpu)) =>
                            (resp'.status = 404 /\ plans' = plans)
       /\ (resp'.op = "get_user_travel_plans" /\ resp'.status = 200) =>
             \A k \in DOMAIN resp'.plan[1].travel_plans :
                /\ resp'.plan[1].travel_plans[k].id \in DOMAIN plans
                /\ resp'.plan[1].travel_plans[k].id \notin DeletedPlanIds
                /\ resp'.plan[1].travel_plans[k].user_id = resp'.principal[1]
      ]_vars

\* C18 witness: the first plan was deleted, another plan is stored, and its
\* owner's request for the deleted id was answered 404.
C18_Witness ==
    /\ DeletedPlanIds = {1}
    /\ DOMAIN plans = {2}
    /\ resp.op = "get_travel_plan"
    /\ resp.status = 404
    /\ resp.path_id = Some(1)
    /\ resp.principal = Some(plans[2].user_id)

(***************************************************************************)
(* C19: principal views are redacted.                                      *)
(***************************************************************************)
\* The fields of a stored principal that no response may carry.
PrivateFields == {"hashed_password", "national_id"}

\* The fields of models.User.
PublicFields ==
    {"id", "email", "username", "first_name", "last_name", "phone",
     "date_of_birth", "is_active", "created_at"}

\* C19: whenever a response of register, login, get_me, get_user or
\* update_user carries a principal view (get_me returns the gateway's current
\* user as it is), the view has the fields of the public model only: neither
\* the password hash nor the national id is in it, although both are stored.
C19_ViewsRedacted ==
    ~IsNone(resp.user) =>
        /\ resp.op \in {"register", "login", "get_me", "get_user", "update_user"}
        /\ DOMAIN resp.user[1] \cap PrivateFields = {}
        /\ DOMAIN resp.user[1] = PublicFields
        /\ \E i \in DOMAIN users :
              /\ users[i].id = resp.user[1].id
              /\ PrivateFields \subseteq DOMAIN users[i]
              /\ \A f \in PublicFields : resp.user[1][f] = users[i][f]

\* C19 witness: get_me answered with the view of a principal whose row holds
\* a password hash and a national id.
C19_Witness ==
    /\ resp.op = "get_me"
    /\ resp.status = 200
    /\ ~IsNone(resp.user)
    /\ \E i \in DOMAIN users :
          /\ users[i].id = resp.user[1].id
          /\ users[i].hashed_password.scheme = "bcrypt"
          /\ ~IsNone(users[i].national_id)


(***************************************************************************)
(* C20: profile update is self-service and partial.                        *)
(***************************************************************************)
\* The fields of models.UpdatedUser.
UpdatableUserFields == {"first_name", "last_name", "phone", "date_of_birth"}

\* The fields of a row that no update_user request may change.
FixedUserFields ==
    {"id", "email", "username", "hashed_password", "is_active", "national_id",
     "created_at"}

\* C20: an update_user request adds and removes no principal; when the
\* authenticated caller's id differs from the path user_id it is answered 403
\* "Not enough permissions" and nothing changes; a request that is not
\* answered 200 changes nothing; and a row that changes is the caller's own,
\* keeps its id, email, username, password hash and active flag, keeps every
\* field that was not supplied, and takes the supplied value of every field
\* that was, with updated_at set to the time of the request.
C20_ProfileUpdateFrame ==
    [][resp'.op = "update_user" =>
       /\ DOMAIN users' = DOMAIN users
       /\ (~IsNone(resp'.principal) /\ resp'.principal # resp'.path_id) =>
             /\ resp'.status = 403
             /\ resp'.detail = "Not enough permissions"
             /\ users' = users
       /\ resp'.status # 200 => users' = users
       /\ \A i \in DOMAIN users :
             users'[i] # users[i] =>
                /\ resp'.status = 200
                /\ resp'.path_id = Some(i)
                /\ resp'.principal = Some(users[i].id)
                /\ \A f \in FixedUserFields : users'[i][f] = users[i][f]
                /\ users'[i].updated_at = Some(now)
                /\ \A c \in Credentials, uu \in UpdatedUsers :
                      UpdateUser(c, i, uu) =>
                         /\ \A f \in UpdatableUserFields \ DOMAIN uu :
                               users'[i][f] = users[i][f]
                         /\ \A f \in DOMAIN uu : users'[i][f] = uu[f]
      ]_vars

\* C20 witness: a principal's update that supplied a first name and a phone
\* was accepted: both are stored, and the last name, the password hash and
\* the active flag are those of registration.
C20_Witness ==
    /\ resp.op = "update_user"
    /\ resp.status = 200
    /\ ~IsNone(resp.path_id)
    /\ resp.path_id = resp.principal
    /\ resp.path_id[1] \in DOMAIN users
    /\ LET u == users[resp.path_id[1]] IN
          /\ u.first_name = Some("Updated")
          /\ u.phone = Some("0987654321")
          /\ u.last_name = Some("Last")
          /\ u.hashed_password = get_password_hash("pw1")
          /\ u.is_active
          /\ ~IsNone(u.updated_at)


(***************************************************************************)
(* C21: the tax comparison.                                                *)
(***************************************************************************)
\* The place of row i of the query answer in the sorted list: behind every
\* row with a larger estimate and behind the earlier rows with an equal one.
PlaceOf(rows, budget, i) ==
    1 + Cardinality({j \in DOMAIN rows :
                        \/ budget * rows[j].tax_reduction_percentage >
                              budget * rows[i].tax_reduction_percentage
                        \/ /\ j < i
                           /\ budget * rows[j].tax_reduction_percentage =
                                 budget * rows[i].tax_reduction_percentage})

\* C21: a tax comparison answered 200 reports budget * reference rate / 100
\* as estimated_tax_reduction (amounts in hundredths, so budget * percentage);
\* its list has min(number of catalog rows, 10) entries; every catalog row is
\* at its place in the descending order with ties in the order of the query
\* answer, or is cut off when that place is beyond 10; and each entry carries
\* its row's estimate, difference = estimate - reference estimate and
\* is_better = (difference > 0).
C21_TaxComparison ==
    (call.fn = "get_province_tax_benefits" /\ call.result.status = 200) =>
        LET rows == call.all_provinces
            body == call.result.body[1]
            list == body.comparison_with_other_provinces
            reference == CHOOSE r \in {rows[i] : i \in DOMAIN rows} : r.id = call.province_id
            reference_estimate == call.budget * reference.tax_reduction_percentage
        IN /\ body.estimated_tax_reduction = reference_estimate
           /\ Len(list) = IF Len(rows) < 10 THEN Len(rows) ELSE 10
           /\ \A i \in DOMAIN rows :
                 LET k == PlaceOf(rows, call.budget, i)
                     estimate == call.budget * rows[i].tax_reduction_percentage
                 IN k <= 10 =>
                       /\ list[k].province_id = rows[i].id
                       /\ list[k].estimated_reduction = estimate
                       /\ list[k].difference = estimate - reference_estimate
                       /\ list[k].is_better = (estimate > reference_estimate)

\* C21 witness: a comparison over twelve rows for 10000 baht against the 8%
\* region 4: the list has ten entries, two are cut off, the two 15% regions
\* come first in the order of the query answer, and the entry of region 10
\* (8%, as the reference) is not better.
C21_Witness ==
    /\ call.fn = "get_province_tax_benefits"
    /\ call.result.status = 200
    /\ call.all_provinces = provinces \o test_provinces
    /\ call.budget = 10000
    /\ call.province_id = 4
    /\ LET list == call.result.body[1].comparison_with_other_provinces IN
          /\ Len(list) = 10
          /\ list[1].province_id = 1 /\ list[2].province_id = 1001
          /\ list[1].estimated_reduction = 150000 /\ list[1].is_better
          /\ \E k \in DOMAIN list : list[k].province_id = 10 /\ ~list[k].is_better
          /\ \A k \in DOMAIN list : list[k].province_id # 1002


(***************************************************************************)
(* C22, C23: the ranges of status and budget.                              *)
(***************************************************************************)
\* The statuses named by the comment on DBTravelPlan.status, and "confirmed".
Statuses == {"planned", "ongoing", "completed", "cancelled", "confirmed"}

\* C22: the status of every stored travel plan is one of planned, ongoing,
\* completed, cancelled and confirmed.
C22_StatusInFixedSet ==
    \A i \in DOMAIN plans :
        ~IsNone(plans[i].status) /\ plans[i].status[1] \in Statuses

\* C23: the budget of every stored travel plan is absent or not negative, and
\* its estimated reduction is absent or not negative.
C23_BudgetNonNegative ==
    \A i \in DOMAIN plans :
        /\ IsNone(plans[i].budget) \/ plans[i].budget[1] >= 0
        /\ IsNone(plans[i].estimated_tax_reduction) \/
              plans[i].estimated_tax_reduction[1] >= 0


(***************************************************************************)
(* C24: an error outcome leaves the store as it was.                       *)
(***************************************************************************)
\* The response is one of the error outcomes: 400, 401, 403, 404 or 500.
ErrorOutcome(r) == r # NoResponse /\ r.status # 200

LoadedAt(n) == CHOOSE i \in DOMAIN call.log : call.log[i].kind = "load" /\ call.log[i].n = n

\* Commits x and y, y the latest event, of two requests that both loaded the
\* plan before either committed.
Interleaved(x, y) ==
    /\ x \in DOMAIN call.log /\ y = Len(call.log) /\ x < y
    /\ call.log[x].kind = "commit" /\ call.log[y].kind = "commit"
    /\ LoadedAt(call.log[y].n) < x

\* C25: when two update requests of the owner for the same plan have both
\* loaded it before either commits, both are answered 200, and every field
\* that both supplied has, after the second commit, the value supplied by the
\* request that committed last.
C25_LastWriteWins ==
    call.fn = "update_travel_plan" =>
        \A x, y \in DOMAIN call.log :
            Interleaved(x, y) =>
                /\ call.log[x].status = 200
                /\ call.log[y].status = 200
                /\ \A f \in DOMAIN call.log[x].travel_plan_update \cap
                            DOMAIN call.log[y].travel_plan_update :
                      plans[1][f] = call.log[y].travel_plan_update[f]


(***************************************************************************)
(* C26: registrations of one email that interleave.                        *)
(***************************************************************************)
\* C26: when a register request that ran both of its existence checks before
\* another registration of the same email committed reaches its own commit,
\* it creates no principal and is answered 400 "Email already registered".
C26_RaceLoserGetsDuplicate ==
    [][\A s \in Slots :
          (/\ At(s, "create")
           /\ inflight'[s] = Idle
           /\ email_registered(users, inflight[s].user_info.email)) =>
             /\ users' = users
             /\ resp'.op = "register"
             /\ resp'.status = 400
             /\ resp'.detail = "Email already registered"
      ]_vars


(***************************************************************************)
(* C27: the expiry of an issued token.                                     *)
(***************************************************************************)
\* C27: a token made by create_access_token or create_refresh_token expires
\* at its issue time plus the ttl the caller supplied, a zero ttl included,
\* and at the issue time plus the configured default (300 minutes for access,
\* 10080 minutes for refresh) when the caller supplied none.
C27_ExpiryHonoursTtl ==
    call.fn \in {"create_access_token", "create_refresh_token"} =>
        call.token.exp =
            call.at + (IF ~IsNone(call.expires_delta) THEN call.expires_delta[1]
                       ELSE IF call.fn = "create_access_token"
                       THEN timedelta_minutes(300)
                       ELSE timedelta_minutes(10080))


(***************************************************************************)
(* C28: the list of the caller's plans.                                    *)
(***************************************************************************)
\* The stored plans of the caller that pass the filter.
Listed(caller, status_filter) ==
    {i \in DOMAIN plans :
        /\ plans[i].user_id = caller
        /\ ~IsNone(status_filter) => plans[i].status = status_filter}

\* The sum of f over the finite set S.
RECURSIVE SumOver(_, _)
SumOver(S, f) ==
    IF S = {} THEN 0
    ELSE LET x == CHOOSE x \in S : TRUE IN f[x] + SumOver(S \ {x}, f)

\* The estimate of a stored plan, a missing one counted as 0.
EstimateOrZero ==
    [i \in DOMAIN plans |->
        IF IsNone(plans[i].estimated_tax_reduction) THEN 0
        ELSE plans[i].estimated_tax_reduction[1]]

\* The returned plans are exactly the caller's stored plans that pass the
\* filter, each once and as stored, newest created first.
ListIsExact(body, caller, status_filter) ==
    LET list == body.travel_plans IN
    /\ {list[k].id : k \in DOMAIN list} = Listed(caller, status_filter)
    /\ Len(list) = Cardinality(Listed(caller, status_filter))
    /\ \A k \in DOMAIN list :
          list[k] = TravelPlan(plans[list[k].id], provinces[plans[list[k].id].province_id])
    /\ \A j, k \in DOMAIN list : j < k => list[j].created_at >= list[k].created_at

\* total_count and the counts of plans_by_status.
CountsAgree(body) ==
    /\ body.total_count = Len(body.travel_plans)
    /\ SumOver(DOMAIN body.plans_by_status, body.plans_by_status) = body.total_count

\* total_estimated_savings is the sum of the returned estimates.
TotalIsSum(body) ==
    body.total_estimated_savings =
        DecimalOf(SumOver({body.travel_plans[k].id : k \in DOMAIN body.travel_plans},
                          EstimateOrZero), 0)

\* upcoming_trips: at most 5, each a returned plan that starts after now and
\* is planned or confirmed.
UpcomingAreReturned(body, t) ==
    /\ Len(body.upcoming_trips) <= 5
    /\ \A u \in DOMAIN body.upcoming_trips :
          /\ \E k \in DOMAIN body.travel_plans : body.travel_plans[k] = body.upcoming_trips[u]
          /\ body.upcoming_trips[u].start_date[1] > t
          /\ body.upcoming_trips[u].status[1] \in {"planned", "confirmed"}

\* C28: a list request answered 200 returns exactly the stored plans owned by
\* the caller (those with the filter's status when one is given), newest
\* created first; total_count is their number, the counts of plans_by_status
\* sum to it, total_estimated_savings is the sum of their estimates (a missing
\* one counted as 0), and upcoming_trips holds at most 5 of them, each
\* starting in the future with status planned or confirmed.
C28_ListOfOwnPlans ==
    [][resp'.op = "get_user_travel_plans" /\ resp'.status = 200 =>
          \A c \in Credentials, sf \in ListStatusFilters :
              GetUserTravelPlans(c, sf) =>
                 /\ ListIsExact(resp'.plan[1], resp'.principal[1], sf)
                 /\ CountsAgree(resp'.plan[1])
                 /\ TotalIsSum(resp'.plan[1])
                 /\ UpcomingAreReturned(resp'.plan[1], now)
      ]_vars


(***************************************************************************)
(* C29: principals are permanent and stay active.                          *)
(***************************************************************************)
\* The username resolves, as the gateway and login resolve it, to the row
\* with this id.
ResolvesTo(us, username, id) ==
    /\ select_by_username(us, username) = {id}
    /\ first(us, select_by_username(us, username)) = Some(us[id])
    /\ us[id].id = id

\* The InactiveAccount outcome.
IsInactiveAccount(r) ==
    r.status = inactive_user.status_code /\ r.detail = inactive_user.detail

\* C29: no step of the user API removes a principal or changes its id or
\* username; after every step every principal is active, the response is not
\* InactiveAccount, and every username registered before the step still
\* resolves to the principal it resolved to.
C29_PrincipalsPermanent ==
    [][/\ \A i \in DOMAIN users :
             /\ i \in DOMAIN users'
             /\ users'[i].username = users[i].username
             /\ ResolvesTo(users, users[i].username, i)
                   => ResolvesTo(users', users[i].username, i)
       /\ \A i \in DOMAIN users' :
             /\ users'[i].is_active
             /\ ResolvesTo(users', users'[i].username, i)
       /\ ~IsInactiveAccount(resp')
      ]_vars

\* Both usernames are registered, one principal has changed its password and
\* its profile, and a login by the username is answered with that principal.
C29_Witness ==
    /\ Cardinality(DOMAIN users) = 2
    /\ resp.op = "login" /\ resp.status = 200
    /\ \E i \in DOMAIN users :
          /\ resp.user[1].id = i
          /\ users[i].hashed_password = get_password_hash("pw2")
          /\ users[i].first_name = Some("Updated")


(***************************************************************************)
(* C30: a password change revokes no token.                                *)
(***************************************************************************)
\* An access token signed by the server for the username of principal i.
AccessTokenFor(tok, us, i) ==
    tok.type = "access" /\ tok.sig = "valid" /\ tok.sub = Some(us[i].username)

\* The gateway accepts the token as principal i exactly while it has not
\* expired.
AcceptedUntilExpiry(tok, us, i, t) ==
    LET auth == get_current_user(Some(tok), us, t) IN
    IF tok.exp < t THEN ~auth.ok
    ELSE auth.ok /\ auth.user[1].id = i

\* C30: after a successful change_password of a principal, every access token
\* issued to it before the change is accepted by the gateway as that principal
\* until it expires, whatever the stored password is; and so is, after every
\* step, every access token issued so far.
C30_TokensSurvivePasswordChange ==
    [][/\ resp'.op = "change_password" /\ resp'.status = 200 =>
             \A tok \in issued :
                AccessTokenFor(tok, users, resp'.principal[1]) =>
                   AcceptedUntilExpiry(tok, users', resp'.principal[1], now')
       /\ \A tok \in issued', i \in DOMAIN users' :
             AccessTokenFor(tok, users', i) => AcceptedUntilExpiry(tok, users', i, now')
      ]_vars

\* A principal has just changed its password to a new one and holds an access
\* token, issued before the change, that the gateway still accepts.
C30_Witness ==
    /\ resp.op = "change_password" /\ resp.status = 200
    /\ users[resp.principal[1]].hashed_password = get_password_hash("pw2")
    /\ \E tok \in issued :
          /\ AccessTokenFor(tok, users, resp.principal[1])
          /\ get_current_user(Some(tok), users, now).ok

====
